---- MODULE Spec2Model ----
(***************************************************************************)
(* A model of the soltrace event indexer: the schema registry's event      *)
(* discriminators, the IDL-driven binary decoder, the decode orchestrator, *)
(* the storage backends and the live log pipeline.                         *)
(*                                                                         *)
(* Bytes are naturals 0..255 and byte strings are sequences of them.       *)
(* Text (event names, signatures, hex, decimal strings) is a sequence of   *)
(* ASCII codes, so formatting and parsing are computed, not assumed.       *)
(* TLC integers are 32-bit, so wider integers are kept as little-endian    *)
(* byte sequences and 32-bit hash words as <<high 16 bits, low 16 bits>>.  *)
(***************************************************************************)
EXTENDS Integers, Sequences, FiniteSets, TLC

VARIABLES
    idl_parser,     \* EventDecoder.idl_parser.idls: program id -> ParsedIdl
    prefix_config,  \* EventDecoder.prefix_config
    alloc_limit,    \* the largest Vec capacity the allocator grants (the machine)
    target_pointer_width, \* the width of usize on the build's target: 32 or 64
    clock,          \* chrono::Utc::now(): [secs, nanos] since the epoch
    call,           \* the operation applied last, with its arguments
    outcome,        \* what that operation returned
    databases,      \* per Database handle: backend kind, rows and id allocator
    history         \* every insert_event call so far, with its result

vars == <<idl_parser, prefix_config, alloc_limit, target_pointer_width, clock, call, outcome, databases, history>>

(***************************************************************************)
(* Text used by the code, as ASCII codes.                                  *)
(***************************************************************************)

\* The type names decode_simple_type matches on.
TypeName ==
    [bool   |-> <<98, 111, 111, 108>>,                 \* "bool"
     u8     |-> <<117, 56>>,                           \* "u8"
     u16    |-> <<117, 49, 54>>,                       \* "u16"
     u32    |-> <<117, 51, 50>>,                       \* "u32"
     u64    |-> <<117, 54, 52>>,                       \* "u64"
     u128   |-> <<117, 49, 50, 56>>,                   \* "u128"
     i8     |-> <<105, 56>>,                           \* "i8"
     i16    |-> <<105, 49, 54>>,                       \* "i16"
     i32    |-> <<105, 51, 50>>,                       \* "i32"
     i64    |-> <<105, 54, 52>>,                       \* "i64"
     i128   |-> <<105, 49, 50, 56>>,                   \* "i128"
     string |-> <<115, 116, 114, 105, 110, 103>>,      \* "string"
     bytes  |-> <<98, 121, 116, 101, 115>>,            \* "bytes"
     option |-> <<111, 112, 116, 105, 111, 110, 60>>,  \* "option<"
     vec    |-> <<118, 101, 99, 60>>,                  \* "vec<"
     publicKey |-> <<112, 117, 98, 108, 105, 99, 75, 101, 121>>,  \* "publicKey"
     pubkey |-> <<112, 117, 98, 107, 101, 121>>,       \* "pubkey"
     Pubkey |-> <<80, 117, 98, 107, 101, 121>>]        \* "Pubkey"

\* The keys of the JSON objects the code reads (IDL types) and writes (the
\* fallback document).
Key ==
    [array        |-> <<97, 114, 114, 97, 121>>,
     defined      |-> <<100, 101, 102, 105, 110, 101, 100>>,
     name         |-> <<110, 97, 109, 101>>,
     type         |-> <<116, 121, 112, 101>>,
     kind         |-> <<107, 105, 110, 100>>,
     fields       |-> <<102, 105, 101, 108, 100, 115>>,
     hex          |-> <<104, 101, 120>>,
     length       |-> <<108, 101, 110, 103, 116, 104>>,
     decode_error |-> <<100, 101, 99, 111, 100, 101, 95, 101, 114, 114, 111, 114>>,
     event_name   |-> <<101, 118, 101, 110, 116, 95, 110, 97, 109, 101>>,
     field_count  |-> <<102, 105, 101, 108, 100, 95, 99, 111, 117, 110, 116>>,
     timestamp    |-> <<116, 105, 109, 101, 115, 116, 97, 109, 112>>]

\* The preimage prefix of an event discriminator: "event:".
EventPrefix == <<101, 118, 101, 110, 116, 58>>

\* ProgramPrefixConfig::new's default_prefix: "default".
DefaultPrefix == <<100, 101, 102, 97, 117, 108, 116>>

\* The frame prefix of an event log line: "Program data: " and, without the
\* space, the "Program data:" that starts_with tests.
ProgramDataPrefix == <<80, 114, 111, 103, 114, 97, 109, 32, 100, 97, 116, 97, 58, 32>>
ProgramDataTag == <<80, 114, 111, 103, 114, 97, 109, 32, 100, 97, 116, 97, 58>>

\* str::starts_with on text.
StartsWith(s, p) == Len(s) >= Len(p) /\ SubSeq(s, 1, Len(p)) = p

\* str::ends_with on text.
EndsWith(s, p) == Len(s) >= Len(p) /\ SubSeq(s, Len(s) - Len(p) + 1, Len(s)) = p

\* str::contains on text.
Contains(s, p) == \E i \in 0..(Len(s) - Len(p)) : SubSeq(s, i + 1, i + Len(p)) = p

(***************************************************************************)
(* SHA-256 (anchor_lang::solana_program::hash::hash), FIPS 180-4.          *)
(***************************************************************************)

\* Bitwise xor of two 4-bit values, by bits.
NibXor(a, b) ==
    LET bit(x, k) == (x \div (2^k)) % 2
    IN  ((bit(a,0) + bit(b,0)) % 2) + 2 * ((bit(a,1) + bit(b,1)) % 2)
        + 4 * ((bit(a,2) + bit(b,2)) % 2) + 8 * ((bit(a,3) + bit(b,3)) % 2)

\* Bitwise and of two 4-bit values, by bits.
NibAnd(a, b) ==
    LET bit(x, k) == (x \div (2^k)) % 2
    IN  (bit(a,0) * bit(b,0)) + 2 * (bit(a,1) * bit(b,1))
        + 4 * (bit(a,2) * bit(b,2)) + 8 * (bit(a,3) * bit(b,3))

\* The two 4-bit operations as tables, evaluated once.
XorTable == [a \in 0..15 |-> [b \in 0..15 |-> NibXor(a, b)]]
AndTable == [a \in 0..15 |-> [b \in 0..15 |-> NibAnd(a, b)]]

\* A 16-bit operation from its 4-bit table.
Op16(T, a, b) ==
    T[a % 16][b % 16] + 16 * T[(a \div 16) % 16][(b \div 16) % 16]
    + 256 * T[(a \div 256) % 16][(b \div 256) % 16]
    + 4096 * T[(a \div 4096) % 16][(b \div 4096) % 16]

\* 32-bit words as <<high half, low half>>.
WXor(x, y) == <<Op16(XorTable, x[1], y[1]), Op16(XorTable, x[2], y[2])>>
WAnd(x, y) == <<Op16(AndTable, x[1], y[1]), Op16(AndTable, x[2], y[2])>>
WNot(x) == <<65535 - x[1], 65535 - x[2]>>
\* Addition modulo 2^32 (wrapping_add).
WAdd(x, y) ==
    LET lo == x[2] + y[2]
        hi == x[1] + y[1] + (lo \div 65536)
    IN  <<hi % 65536, lo % 65536>>

RECURSIVE RotR(_, _)
\* rotate_right(n), 0 <= n < 32.
RotR(x, n) ==
    IF n = 0 THEN x
    ELSE IF n >= 16 THEN RotR(<<x[2], x[1]>>, n - 16)
    ELSE <<(x[1] \div (2^n)) + (x[2] % (2^n)) * (2^(16 - n)),
           (x[2] \div (2^n)) + (x[1] % (2^n)) * (2^(16 - n))>>

\* Logical shift right by n, 0 < n < 32.
ShR(x, n) ==
    IF n >= 16 THEN <<0, x[1] \div (2^(n - 16))>>
    ELSE <<x[1] \div (2^n), (x[2] \div (2^n)) + (x[1] % (2^n)) * (2^(16 - n))>>

\* The 64 round constants.
Sha256K == <<
    <<17034, 12184>>, <<28983, 17553>>, <<46528, 64463>>, <<59829, 56229>>,
    <<14678, 49755>>, <<23025, 4593>>, <<37439, 33444>>, <<43804, 24277>>,
    <<55303, 43672>>, <<4739, 23297>>, <<9265, 34238>>, <<21772, 32195>>,
    <<29374, 23924>>, <<32990, 45566>>, <<39900, 1703>>, <<49563, 61812>>,
    <<58523, 27073>>, <<61374, 18310>>, <<4033, 40390>>, <<9228, 41420>>,
    <<11753, 11375>>, <<19060, 33962>>, <<23728, 43484>>, <<30457, 35034>>,
    <<38974, 20818>>, <<43057, 50797>>, <<45059, 10184>>, <<48985, 32711>>,
    <<50912, 3059>>, <<54695, 37191>>, <<1738, 25425>>, <<5161, 10599>>,
    <<10167, 2693>>, <<11803, 8504>>, <<19756, 28156>>, <<21304, 3347>>,
    <<25866, 29524>>, <<30314, 2747>>, <<33218, 51502>>, <<37490, 11397>>,
    <<41663, 59553>>, <<43034, 26187>>, <<49739, 35696>>, <<51052, 20899>>,
    <<53650, 59417>>, <<54937, 1572>>, <<62478, 13701>>, <<4202, 41072>>,
    <<6564, 49430>>, <<7735, 27656>>, <<10056, 30540>>, <<13488, 48309>>,
    <<14620, 3251>>, <<20184, 43594>>, <<23452, 51791>>, <<26670, 28659>>,
    <<29839, 33518>>, <<30885, 25455>>, <<33992, 30740>>, <<36039, 520>>,
    <<37054, 65530>>, <<42064, 27883>>, <<48889, 41975>>, <<50801, 30962>> >>

\* The initial hash value.
Sha256H0 == <<
    <<27145, 58983>>, <<47975, 44677>>, <<15470, 62322>>, <<42319, 62778>>,
    <<20750, 21119>>, <<39685, 26764>>, <<8067, 55723>>, <<23520, 52505>> >>

\* The message padded to a multiple of 64 bytes: 0x80, zeros, 64-bit bit length
\* (messages here are shorter than 2^16 bytes, so the top 5 length bytes are 0).
Sha256Pad(msg) ==
    LET n == Len(msg)
        z == (119 - (n % 64)) % 64
        bits == 8 * n
    IN  msg \o <<128>> \o [i \in 1..z |-> 0]
        \o <<0, 0, 0, 0, 0, (bits \div 65536) % 256, (bits \div 256) % 256, bits % 256>>

RECURSIVE Sha256Schedule(_)
\* The message schedule: 16 block words extended to 64.
Sha256Schedule(w) ==
    LET s0(x15) == WXor(WXor(RotR(x15, 7), RotR(x15, 18)), ShR(x15, 3))
        s1(x2) == WXor(WXor(RotR(x2, 17), RotR(x2, 19)), ShR(x2, 10))
        extend(t) == Append(w, WAdd(WAdd(w[t - 16], s0(w[t - 15])),
                                    WAdd(w[t - 7], s1(w[t - 2]))))
    IN  IF Len(w) = 64 THEN w ELSE Sha256Schedule(extend(Len(w) + 1))

\* One round of the compression function on working state s = <<a,..,h>>
\* with the round's sum of constant and schedule word.
Sha256Round(s, kw) ==
    LET S1(e) == WXor(WXor(RotR(e, 6), RotR(e, 11)), RotR(e, 25))
        ch(e, f, g) == WXor(WAnd(e, f), WAnd(WNot(e), g))
        S0(a) == WXor(WXor(RotR(a, 2), RotR(a, 13)), RotR(a, 22))
        maj(a, b, c) == WXor(WXor(WAnd(a, b), WAnd(a, c)), WAnd(b, c))
        next(t1, t2) == <<WAdd(t1, t2), s[1], s[2], s[3], WAdd(s[4], t1), s[5], s[6], s[7]>>
    IN  next(WAdd(WAdd(WAdd(s[8], S1(s[5])), ch(s[5], s[6], s[7])), kw),
             WAdd(S0(s[1]), maj(s[1], s[2], s[3])))

RECURSIVE Sha256Rounds(_, _, _, _)
\* Rounds from..to of the compression function, the first half before the second.
Sha256Rounds(s, w, from, to) ==
    LET second(half, mid) ==
            IF Len(half) = 8 THEN Sha256Rounds(half, w, mid + 1, to) ELSE half
        halves(mid) == second(Sha256Rounds(s, w, from, mid), mid)
    IN  IF from = to THEN Sha256Round(s, WAdd(Sha256K[from], w[from]))
        ELSE halves((from + to) \div 2)

RECURSIVE Sha256Blocks(_, _)
\* The hash state after compressing every 64-byte block of the padded message.
Sha256Blocks(h, padded) ==
    LET w16 == [i \in 1..16 |->
                   <<padded[4 * i - 3] * 256 + padded[4 * i - 2],
                     padded[4 * i - 1] * 256 + padded[4 * i]>>]
        add(s) == [i \in 1..8 |-> WAdd(h[i], s[i])]
        continue(next) ==
            IF Len(next) = 8 THEN Sha256Blocks(next, SubSeq(padded, 65, Len(padded)))
            ELSE next
    IN  IF Len(padded) = 0 THEN h
        ELSE continue(add(Sha256Rounds(h, Sha256Schedule(w16), 1, 64)))

\* The bytes of the hash state (big-endian words).
Sha256Bytes(h) ==
    [i \in 1..32 |->
        IF (i - 1) % 4 = 0 THEN h[((i - 1) \div 4) + 1][1] \div 256
        ELSE IF (i - 1) % 4 = 1 THEN h[((i - 1) \div 4) + 1][1] % 256
        ELSE IF (i - 1) % 4 = 2 THEN h[((i - 1) \div 4) + 1][2] \div 256
        ELSE h[((i - 1) \div 4) + 1][2] % 256]

\* The 32-byte digest.
Sha256(msg) == Sha256Bytes(Sha256Blocks(Sha256H0, Sha256Pad(msg)))


(***************************************************************************)
(* Integers wider than TLC's: a Rust integer value is [neg, mag], mag its   *)
(* magnitude as little-endian bytes without trailing zero bytes.           *)
(***************************************************************************)

RECURSIVE TrimZeros(_)
\* The magnitude bytes without the high-order zero bytes.
TrimZeros(bs) ==
    IF Len(bs) > 0 /\ bs[Len(bs)] = 0 THEN TrimZeros(SubSeq(bs, 1, Len(bs) - 1)) ELSE bs

RECURSIVE NatBytes(_)
\* A usize that fits TLC's integers, as magnitude bytes.
NatBytes(n) == IF n = 0 THEN <<>> ELSE <<n % 256>> \o NatBytes(n \div 256)

\* A usize as an integer value (usize -> serde_json::Number, usize Display).
FromNat(n) == [neg |-> FALSE, mag |-> NatBytes(n)]

RECURSIVE DivStep(_, _, _, _, _)
\* Long division of mag by the small divisor d, from byte i down: [q, r].
DivStep(mag, d, i, rem, q) ==
    IF i = 0 THEN [q |-> q, r |-> rem]
    ELSE LET cur == rem * 256 + mag[i]
         IN  DivStep(mag, d, i - 1, cur % d, [q EXCEPT ![i] = cur \div d])

RECURSIVE ToRadix(_, _)
\* The digits of mag in radix d, least significant first.
ToRadix(mag, d) ==
    IF mag = <<>> THEN <<>>
    ELSE LET dm == DivStep(mag, d, Len(mag), 0, mag)
         IN  <<dm.r>> \o ToRadix(TrimZeros(dm.q), d)

\* A sequence reversed.
Reverse(s) == [i \in 1..Len(s) |-> s[Len(s) + 1 - i]]

\* Display of an integer (to_string): decimal digits, '-' first when negative.
to_string(v) ==
    IF v.mag = <<>> THEN <<48>>
    ELSE (IF v.neg THEN <<45>> ELSE <<>>)
         \o [i \in 1..Len(ToRadix(v.mag, 10)) |-> 48 + Reverse(ToRadix(v.mag, 10))[i]]

\* hex::encode_upper: two digits 0-9A-F per byte.
hex_encode_upper(bs) ==
    LET digit(n) == IF n < 10 THEN 48 + n ELSE 55 + n
    IN  [i \in 1..(2 * Len(bs)) |->
            IF i % 2 = 1 THEN digit(bs[(i + 1) \div 2] \div 16) ELSE digit(bs[i \div 2] % 16)]

\* hex::encode: two digits 0-9a-f per byte.
hex_encode(bs) ==
    LET digit(n) == IF n < 10 THEN 48 + n ELSE 87 + n
    IN  [i \in 1..(2 * Len(bs)) |->
            IF i % 2 = 1 THEN digit(bs[(i + 1) \div 2] \div 16) ELSE digit(bs[i \div 2] % 16)]

\* The base58 alphabet of Pubkey's Display.
Base58Alphabet ==
    <<49, 50, 51, 52, 53, 54, 55, 56, 57, 65, 66, 67, 68, 69, 70, 71, 72, 74, 75, 76,
      77, 78, 80, 81, 82, 83, 84, 85, 86, 87, 88, 89, 90, 97, 98, 99, 100, 101, 102,
      103, 104, 105, 106, 107, 109, 110, 111, 112, 113, 114, 115, 116, 117, 118, 119,
      120, 121, 122>>

RECURSIVE LeadingZeros(_)
\* The number of zero bytes a byte string starts with.
LeadingZeros(bs) ==
    IF Len(bs) > 0 /\ bs[1] = 0 THEN 1 + LeadingZeros(Tail(bs)) ELSE 0

\* Pubkey::to_string: base58 of the big-endian bytes, one '1' per leading zero byte.
pubkey_to_string(bs) ==
    LET digits == Reverse(ToRadix(TrimZeros(Reverse(bs)), 58))
    IN  [i \in 1..LeadingZeros(bs) |-> 49]
        \o [i \in 1..Len(digits) |-> Base58Alphabet[digits[i] + 1]]

RECURSIVE Utf8ValidUpTo(_, _)
\* String::from_utf8: the index (from 0) up to which bs is valid UTF-8, scanning
\* from index i; Len(bs) when all of it is valid.
Utf8ValidUpTo(bs, i) ==
    LET n == Len(bs)
        b == bs[i + 1]
        cont(k) == i + k < n /\ bs[i + k + 1] >= 128 /\ bs[i + k + 1] <= 191
        second(lo, hi) == i + 1 < n /\ bs[i + 2] >= lo /\ bs[i + 2] <= hi
        width ==
            IF b <= 127 THEN 1
            ELSE IF b >= 194 /\ b <= 223 THEN (IF cont(1) THEN 2 ELSE 0)
            ELSE IF b = 224 THEN (IF second(160, 191) /\ cont(2) THEN 3 ELSE 0)
            ELSE IF b = 237 THEN (IF second(128, 159) /\ cont(2) THEN 3 ELSE 0)
            ELSE IF b >= 225 /\ b <= 239 THEN (IF cont(1) /\ cont(2) THEN 3 ELSE 0)
            ELSE IF b = 240 THEN (IF second(144, 191) /\ cont(2) /\ cont(3) THEN 4 ELSE 0)
            ELSE IF b >= 241 /\ b <= 243 THEN (IF cont(1) /\ cont(2) /\ cont(3) THEN 4 ELSE 0)
            ELSE IF b = 244 THEN (IF second(128, 143) /\ cont(2) /\ cont(3) THEN 4 ELSE 0)
            ELSE 0
    IN  IF i >= n THEN n
        ELSE IF width = 0 THEN i
        ELSE Utf8ValidUpTo(bs, i + width)

\* Utf8Error::error_len at the first invalid index i: the length of the invalid
\* sequence, or 0 (None) when the input ends inside a character.
utf8_error_len(bs, i) ==
    LET n == Len(bs)
        b == bs[i + 1]
        has(k) == i + k < n
        cont(k) == bs[i + k + 1] >= 128 /\ bs[i + k + 1] <= 191
        second ==
            IF b = 224 THEN bs[i + 2] >= 160 /\ bs[i + 2] <= 191
            ELSE IF b = 237 THEN bs[i + 2] >= 128 /\ bs[i + 2] <= 159
            ELSE IF b = 240 THEN bs[i + 2] >= 144 /\ bs[i + 2] <= 191
            ELSE IF b = 244 THEN bs[i + 2] >= 128 /\ bs[i + 2] <= 143
            ELSE cont(1)
    IN  IF b >= 194 /\ b <= 223 THEN (IF has(1) THEN 1 ELSE 0)
        ELSE IF b >= 224 /\ b <= 239 THEN
            IF ~has(1) THEN 0 ELSE IF ~second THEN 1 ELSE IF ~has(2) THEN 0 ELSE 2
        ELSE IF b >= 240 /\ b <= 244 THEN
            IF ~has(1) THEN 0 ELSE IF ~second THEN 1
            ELSE IF ~has(2) THEN 0 ELSE IF ~cont(2) THEN 2
            ELSE IF ~has(3) THEN 0 ELSE 3
        ELSE 1

(***************************************************************************)
(* serde_json::Value and Result.                                           *)
(***************************************************************************)

JNull == [t |-> "null"]
JBool(b) == [t |-> "bool", v |-> b]
JNumber(n) == [t |-> "number", v |-> n]
JString(s) == [t |-> "string", v |-> s]
JArray(a) == [t |-> "array", v |-> a]
\* An object is a function from its keys to their values.
JObject(m) == [t |-> "object", v |-> m]
\* serde_json::Map::insert: the new entry replaces an entry of the same key.
MapInsert(m, k, v) == (k :> v) @@ m

\* Ok((value, bytes_read)).
Ok(value, n) == [ok |-> TRUE, value |-> value, n |-> n]
\* Err(SoltraceError::EventDecode(msg)); msg is the message's literal pieces
\* and, as text, its formatted arguments.
Err(msg) == [ok |-> FALSE, err |-> [kind |-> "EventDecode", msg |-> msg]]
\* A panic (an out-of-range slice or index), which no caller catches.
Panic(msg) == [ok |-> FALSE, err |-> [kind |-> "panic", msg |-> msg]]
\* handle_alloc_error: the allocator refused a request and the process aborts.
Abort(msg) == [ok |-> FALSE, err |-> [kind |-> "abort", msg |-> msg]]

\* Display of FromUtf8Error for bytes that are not valid UTF-8.
utf8_error_to_string(bs) ==
    LET valid_up_to == Utf8ValidUpTo(bs, 0)
        error_len == utf8_error_len(bs, valid_up_to)
    IN  IF error_len = 0
        THEN <<105, 110, 99, 111, 109, 112, 108, 101, 116, 101, 32, 117, 116, 102, 45, 56, 32, 98, 121, 116, 101, 32, 115, 101, 113, 117, 101, 110, 99, 101, 32, 102, 114, 111, 109, 32, 105, 110, 100, 101, 120, 32>> \o to_string(FromNat(valid_up_to))
        ELSE <<105, 110, 118, 97, 108, 105, 100, 32, 117, 116, 102, 45, 56, 32, 115, 101, 113, 117, 101, 110, 99, 101, 32, 111, 102, 32>> \o to_string(FromNat(error_len))
             \o <<32, 98, 121, 116, 101, 115, 32, 102, 114, 111, 109, 32, 105, 110, 100, 101, 120, 32>> \o to_string(FromNat(valid_up_to))

\* a < b in the order of str (byte-wise lexicographic).
RECURSIVE StrLess(_, _)
StrLess(a, b) ==
    IF b = <<>> THEN FALSE
    ELSE IF a = <<>> THEN TRUE
    ELSE IF a[1] # b[1] THEN a[1] < b[1]
    ELSE StrLess(Tail(a), Tail(b))

\* The keys of a serde_json::Map in its iteration order (a BTreeMap: sorted).
RECURSIVE SortedKeys(_)
SortedKeys(keys) ==
    IF keys = {} THEN <<>>
    ELSE LET first == CHOOSE k \in keys : \A o \in keys \ {k} : StrLess(k, o)
         IN  <<first>> \o SortedKeys(keys \ {first})

\* The pieces of a sequence of texts joined by sep.
RECURSIVE JoinText(_, _)
JoinText(pieces, sep) ==
    IF pieces = <<>> THEN <<>>
    ELSE IF Len(pieces) = 1 THEN pieces[1]
    ELSE pieces[1] \o sep \o JoinText(Tail(pieces), sep)

\* A JSON string literal: quotes, with '"', '\' and control characters escaped.
RECURSIVE json_escape(_)
json_escape(s) ==
    IF s = <<>> THEN <<>>
    ELSE (IF s[1] = 34 THEN <<92, 34>>
          ELSE IF s[1] = 92 THEN <<92, 92>>
          ELSE IF s[1] = 8 THEN <<92, 98>>
          ELSE IF s[1] = 9 THEN <<92, 116>>
          ELSE IF s[1] = 10 THEN <<92, 110>>
          ELSE IF s[1] = 12 THEN <<92, 102>>
          ELSE IF s[1] = 13 THEN <<92, 114>>
          ELSE IF s[1] < 32 THEN <<92, 117, 48, 48>> \o hex_encode(<<s[1]>>)
          ELSE <<s[1]>>) \o json_escape(Tail(s))

\* Display of serde_json::Value (serde_json::to_string): compact JSON.
RECURSIVE json_to_string(_)
json_to_string(value) ==
    IF value.t = "null" THEN <<110, 117, 108, 108>>
    ELSE IF value.t = "bool" THEN (IF value.v THEN <<116, 114, 117, 101>> ELSE <<102, 97, 108, 115, 101>>)
    ELSE IF value.t = "number" THEN to_string(value.v)
    ELSE IF value.t = "string" THEN <<34>> \o json_escape(value.v) \o <<34>>
    ELSE IF value.t = "array" THEN
        <<91>> \o JoinText([i \in 1..Len(value.v) |-> json_to_string(value.v[i])], <<44>>)
        \o <<93>>
    ELSE LET keys == SortedKeys(DOMAIN value.v)
         IN  <<123>>
             \o JoinText([i \in 1..Len(keys) |->
                             <<34>> \o json_escape(keys[i]) \o <<34, 58>>
                             \o json_to_string(value.v[keys[i]])], <<44>>)
             \o <<125>>

\* Debug ({:?}) of serde_json::Value: Null, Bool(..), Number(..), String(".."),
\* Array [..], Object {"k": ..}.
RECURSIVE json_debug(_)
json_debug(value) ==
    IF value.t = "null" THEN <<78, 117, 108, 108>>
    ELSE IF value.t = "bool" THEN <<66, 111, 111, 108, 40>> \o json_to_string(value) \o <<41>>
    ELSE IF value.t = "number"
        THEN <<78, 117, 109, 98, 101, 114, 40>> \o to_string(value.v) \o <<41>>
    ELSE IF value.t = "string"
        THEN <<83, 116, 114, 105, 110, 103, 40>> \o json_to_string(value) \o <<41>>
    ELSE IF value.t = "array" THEN
        <<65, 114, 114, 97, 121, 32, 91>>
        \o JoinText([i \in 1..Len(value.v) |-> json_debug(value.v[i])], <<44, 32>>)
        \o <<93>>
    ELSE LET keys == SortedKeys(DOMAIN value.v)
         IN  <<79, 98, 106, 101, 99, 116, 32, 123>>
             \o JoinText([i \in 1..Len(keys) |->
                             <<34>> \o json_escape(keys[i]) \o <<34, 58, 32>>
                             \o json_debug(value.v[keys[i]])], <<44, 32>>)
             \o <<125>>

\* Debug ({:?}) of a serde_json::Map: the object's Debug without "Object ".
map_debug(m) == SubSeq(json_debug(JObject(m)), 8, Len(json_debug(JObject(m))))

\* Display of SoltraceError (thiserror's #[error(..)] format).
error_to_string(e) ==
    IF e.kind = "EventDecode" THEN <<69, 118, 101, 110, 116, 32, 100, 101, 99, 111, 100, 105, 110, 103, 32, 101, 114, 114, 111, 114, 58, 32>> \o e.msg
    ELSE IF e.kind = "Database" THEN <<68, 97, 116, 97, 98, 97, 115, 101, 32, 101, 114, 114, 111, 114, 58, 32>> \o e.msg
    ELSE IF e.kind = "Sqlx" THEN <<83, 81, 76, 120, 32, 101, 114, 114, 111, 114, 58, 32>> \o e.msg
    ELSE e.msg

(***************************************************************************)
(* The IDL-driven binary decoder (idl_event.rs).                           *)
(***************************************************************************)

\* &data[from..]: the bytes from index `from` (counted from 0).
SliceFrom(data, from) == SubSeq(data, from + 1, Len(data))

\* u32::from_le_bytes(..) as usize. A length of 2^30 or more stands as 2^30:
\* the code only compares it with buffer lengths and counts iterations with it.
u32_from_le_bytes(b) ==
    IF b[4] >= 64 THEN 2^30
    ELSE b[1] + 256 * b[2] + 65536 * b[3] + 16777216 * b[4]

\* T::MAX as magnitude bytes, for the integer type named ty.
IntMax(ty) ==
    LET ones(k) == [i \in 1..k |-> 255]
    IN  CASE ty = "u8" -> ones(1)
          [] ty = "u16" -> ones(2)
          [] ty = "u32" -> ones(4)
          [] ty = "u64" -> ones(8)
          [] ty = "u128" -> ones(16)
          [] ty = "i8" -> <<127>>
          [] ty = "i16" -> ones(1) \o <<127>>
          [] ty = "i32" -> ones(3) \o <<127>>
          [] ty = "i64" -> ones(7) \o <<127>>

RECURSIVE MagLeq(_, _)
\* a <= b for magnitudes without trailing zero bytes.
MagLeq(a, b) ==
    IF Len(a) # Len(b) THEN Len(a) < Len(b)
    ELSE IF Len(a) = 0 THEN TRUE
    ELSE IF a[Len(a)] # b[Len(b)] THEN a[Len(a)] < b[Len(b)]
    ELSE MagLeq(SubSeq(a, 1, Len(a) - 1), SubSeq(b, 1, Len(b) - 1))

\* read_le_bytes reading the bytes in big-endian order.
read_be_bytes(ty, data, size) ==
    IF Len(data) < size THEN Err(<<>>)
    ELSE Ok([neg |-> FALSE,
             mag |-> TrimZeros([i \in 1..size |-> data[size + 1 - i]])], size)

\* read_le_bytes::<T>(data, size): the first `size` bytes, zero-extended to a
\* u128, then T::try_from of that (unsigned) value.
read_le_bytes(ty, data, size) ==
    \* "Not enough data for integer"
    IF Len(data) < size THEN Err(<<78, 111, 116, 32, 101, 110, 111, 117, 103, 104, 32, 100, 97, 116, 97, 32, 102, 111, 114, 32, 105, 110, 116, 101, 103, 101, 114>>)
    ELSE LET bytes == [i \in 1..16 |-> IF i <= size THEN data[i] ELSE 0]
             value == TrimZeros(bytes)
         IN  IF MagLeq(value, TrimZeros(IntMax(ty)))
             THEN Ok([neg |-> FALSE, mag |-> value], size)
             \* "Integer conversion failed"
             ELSE Err(<<73, 110, 116, 101, 103, 101, 114, 32, 99, 111, 110, 118, 101, 114, 115, 105, 111, 110, 32, 102, 97, 105, 108, 101, 100>>)

RECURSIVE AddOne(_)
\* mag + 1 on fixed-width little-endian bytes (wrapping).
AddOne(bs) ==
    IF bs = <<>> THEN <<>>
    ELSE IF bs[1] < 255 THEN <<bs[1] + 1>> \o Tail(bs)
    ELSE <<0>> \o AddOne(Tail(bs))

\* read_i128: i128::from_le_bytes of the first 16 bytes (two's complement).
read_i128(data) ==
    \* "Not enough data for i128"
    IF Len(data) < 16 THEN Err(<<78, 111, 116, 32, 101, 110, 111, 117, 103, 104, 32, 100, 97, 116, 97, 32, 102, 111, 114, 32, 105, 49, 50, 56>>)
    ELSE LET bytes == SubSeq(data, 1, 16)
         IN  IF bytes[16] >= 128
             THEN Ok([neg |-> TRUE,
                      mag |-> TrimZeros(AddOne([i \in 1..16 |-> 255 - bytes[i]]))], 16)
             ELSE Ok([neg |-> FALSE, mag |-> TrimZeros(bytes)], 16)

\* decode_string: u32 length prefix, then that many bytes of UTF-8.
decode_string(data) ==
    \* "Not enough data for string length"
    IF Len(data) < 4 THEN Err(<<78, 111, 116, 32, 101, 110, 111, 117, 103, 104, 32, 100, 97, 116, 97, 32, 102, 111, 114, 32, 115, 116, 114, 105, 110, 103, 32, 108, 101, 110, 103, 116, 104>>)
    ELSE LET len == u32_from_le_bytes(data)
         \* "Not enough data for string content"
         IN  IF Len(data) < 4 + len THEN Err(<<78, 111, 116, 32, 101, 110, 111, 117, 103, 104, 32, 100, 97, 116, 97, 32, 102, 111, 114, 32, 115, 116, 114, 105, 110, 103, 32, 99, 111, 110, 116, 101, 110, 116>>)
             ELSE LET s == SubSeq(data, 5, 4 + len)
                  IN  IF Utf8ValidUpTo(s, 0) = Len(s) THEN Ok(s, 4 + len)
                      ELSE Err(<<73, 110, 118, 97, 108, 105, 100, 32, 85, 84, 70, 45, 56, 58, 32>> \o utf8_error_to_string(s))

\* decode_bytes: u32 length prefix, then that many bytes.
decode_bytes(data) ==
    \* "Not enough data for bytes length"
    IF Len(data) < 4 THEN Err(<<78, 111, 116, 32, 101, 110, 111, 117, 103, 104, 32, 100, 97, 116, 97, 32, 102, 111, 114, 32, 98, 121, 116, 101, 115, 32, 108, 101, 110, 103, 116, 104>>)
    ELSE LET len == u32_from_le_bytes(data)
         \* "Not enough data for bytes content"
         IN  IF Len(data) < 4 + len THEN Err(<<78, 111, 116, 32, 101, 110, 111, 117, 103, 104, 32, 100, 97, 116, 97, 32, 102, 111, 114, 32, 98, 121, 116, 101, 115, 32, 99, 111, 110, 116, 101, 110, 116>>)
             ELSE Ok(SubSeq(data, 5, 4 + len), 4 + len)

RECURSIVE SplitAt(_, _)
\* str::split(sep): the pieces of s between occurrences of the character sep.
SplitAt(s, sep) ==
    IF \A i \in 1..Len(s) : s[i] # sep THEN <<s>>
    ELSE LET k == CHOOSE i \in 1..Len(s) : s[i] = sep /\ \A j \in 1..(i - 1) : s[j] # sep
         IN  <<SubSeq(s, 1, k - 1)>> \o SplitAt(SubSeq(s, k + 1, Len(s)), sep)

RECURSIVE TrimText(_)
\* str::trim: without leading and trailing ASCII white space.
TrimText(s) ==
    LET ws(c) == c \in {9, 10, 11, 12, 13, 32}
    IN  IF Len(s) > 0 /\ ws(s[1]) THEN TrimText(Tail(s))
        ELSE IF Len(s) > 0 /\ ws(s[Len(s)]) THEN TrimText(SubSeq(s, 1, Len(s) - 1))
        ELSE s

RECURSIVE DigitsValue(_, _)
\* The value of decimal digits, from the accumulator acc.
DigitsValue(s, acc) ==
    IF s = <<>> THEN acc ELSE DigitsValue(Tail(s), 10 * acc + (s[1] - 48))

\* str::parse::<usize>: an optional '+', then one or more digits; -1 when it
\* fails. Lengths of IDL arrays have at most 9 digits here.
parse_usize(s) ==
    LET digits == IF Len(s) > 0 /\ s[1] = 43 THEN Tail(s) ELSE s
    IN  IF Len(digits) = 0 \/ Len(digits) > 9 THEN -1
        ELSE IF \E i \in 1..Len(digits) : digits[i] < 48 \/ digits[i] > 57 THEN -1
        ELSE DigitsValue(digits, 0)

\* A serde_json number that holds a small unsigned value, as that value
\* (Value::as_u64); -1 when it is negative.
as_u64(v) ==
    IF v.neg /\ v.mag # <<>> THEN -1
    ELSE LET m == v.mag
         IN  (IF Len(m) >= 1 THEN m[1] ELSE 0) + (IF Len(m) >= 2 THEN 256 * m[2] ELSE 0)
             + (IF Len(m) >= 3 THEN 65536 * m[3] ELSE 0)

\* Vec::with_capacity(capacity): whether the allocator grants room for
\* `capacity` values at once; when it does not, the process aborts.
with_capacity(capacity) == capacity <= alloc_limit

\* Vec::with_capacity(capacity) that does not return.  A capacity whose
\* byte size is beyond isize::MAX panics with "capacity overflow" before
\* the allocator is asked: on a 32-bit target every capacity from 2^30 on.
\* A request the allocator refuses aborts the process.
alloc_failure(capacity) ==
    IF target_pointer_width = 32 /\ capacity >= 2^30
    THEN Panic(<<99, 97, 112, 97, 99, 105, 116, 121, 32, 111, 118, 101, 114, 102, 108, 111, 119>>)
    ELSE Abort(<<109, 101, 109, 111, 114, 121, 32, 97, 108, 108, 111, 99, 97, 116, 105, 111, 110, 32, 102, 97, 105, 108, 101, 100>>)

RECURSIVE decode_field(_, _, _)
RECURSIVE decode_simple_type(_, _)
RECURSIVE decode_complex_type(_, _)
RECURSIVE decode_fixed_array_loop(_, _, _, _, _)
RECURSIVE decode_vec_loop(_, _, _, _, _)
RECURSIVE decode_array_loop(_, _, _, _, _)

\* decode_field: the bytes from offset, by the JSON form of the field type.
decode_field(data, offset, field_type) ==
    \* "range start index out of range for slice"
    IF offset > Len(data) THEN Panic(<<114, 97, 110, 103, 101, 32, 115, 116, 97, 114, 116, 32, 105, 110, 100, 101, 120, 32, 111, 117, 116, 32, 111, 102, 32, 114, 97, 110, 103, 101, 32, 102, 111, 114, 32, 115, 108, 105, 99, 101>>)
    ELSE IF field_type.t = "object" THEN decode_complex_type(SliceFrom(data, offset), field_type.v)
    ELSE IF field_type.t = "string" THEN decode_simple_type(SliceFrom(data, offset), field_type.v)
    ELSE Err(<<73, 110, 118, 97, 108, 105, 100, 32, 102, 105, 101, 108, 100, 32, 116, 121, 112, 101, 58, 32>> \o json_to_string(field_type))

\* The loop of the "[T; N]" arm: `left` more elements, each by decode_field.
decode_array_loop(data, inner_type, left, arr, total_bytes) ==
    IF left = 0 THEN Ok(JArray(arr), total_bytes)
    ELSE LET next(r) ==
                 IF ~r.ok THEN r
                 ELSE decode_array_loop(data, inner_type, left - 1, Append(arr, r.value),
                                        total_bytes + r.n)
         IN  next(decode_field(SliceFrom(data, total_bytes), 0, JString(inner_type)))

\* The loop of decode_vec: `left` more elements, each by decode_field.
decode_vec_loop(data, inner_type, left, result, total_bytes) ==
    IF left = 0 THEN Ok(JArray(result), total_bytes)
    ELSE LET next(r) ==
                 IF ~r.ok THEN r
                 ELSE decode_vec_loop(data, inner_type, left - 1, Append(result, r.value),
                                      total_bytes + r.n)
         IN  next(decode_field(SliceFrom(data, total_bytes), 0, JString(inner_type)))

\* decode_vec: u32 length prefix, then that many elements.
decode_vec(data, inner_type) ==
    \* "Not enough data for vec length"
    IF Len(data) < 4 THEN Err(<<78, 111, 116, 32, 101, 110, 111, 117, 103, 104, 32, 100, 97, 116, 97, 32, 102, 111, 114, 32, 118, 101, 99, 32, 108, 101, 110, 103, 116, 104>>)
    ELSE LET len == u32_from_le_bytes(data)
         \* "memory allocation failed"
         IN  IF ~with_capacity(len) THEN alloc_failure(len)
             ELSE decode_vec_loop(data, inner_type, len, <<>>, 4)

\* decode_simple_type: the match on the type's name.
decode_simple_type(data, field_type) ==
    LET number(r) == IF r.ok THEN Ok(JNumber(r.value), r.n) ELSE r
        string(r) == IF r.ok THEN Ok(JString(to_string(r.value)), r.n) ELSE r
        text(r) == IF r.ok THEN Ok(JString(r.value), r.n) ELSE r
        hex(r) == IF r.ok THEN Ok(JString(hex_encode(r.value)), r.n) ELSE r
        some(r) == IF r.ok THEN Ok(r.value, 1 + r.n) ELSE r
        t == field_type
    IN  IF t = TypeName.bool THEN
            \* "Unexpected end of data for bool"
            IF data = <<>> THEN Err(<<85, 110, 101, 120, 112, 101, 99, 116, 101, 100, 32, 101, 110, 100, 32, 111, 102, 32, 100, 97, 116, 97, 32, 102, 111, 114, 32, 98, 111, 111, 108>>)
            ELSE Ok(JBool(data[1] # 0), 1)
        ELSE IF t = TypeName.u8 THEN number(read_le_bytes("u8", data, 1))
        ELSE IF t = TypeName.u16 THEN number(read_le_bytes("u16", data, 2))
        ELSE IF t = TypeName.u32 THEN number(read_le_bytes("u32", data, 4))
        ELSE IF t = TypeName.u64 THEN string(read_le_bytes("u64", data, 8))
        ELSE IF t = TypeName.u128 THEN string(read_le_bytes("u128", data, 16))
        ELSE IF t = TypeName.i8 THEN number(read_le_bytes("i8", data, 1))
        ELSE IF t = TypeName.i16 THEN number(read_le_bytes("i16", data, 2))
        ELSE IF t = TypeName.i32 THEN number(read_le_bytes("i32", data, 4))
        ELSE IF t = TypeName.i64 THEN string(read_le_bytes("i64", data, 8))
        ELSE IF t = TypeName.i128 THEN string(read_i128(data))
        ELSE IF t = TypeName.string THEN
            text(decode_string(data))
        ELSE IF t \in {TypeName.publicKey, TypeName.pubkey, TypeName.Pubkey} THEN
            \* "Not enough data for Pubkey"
            IF Len(data) < 32 THEN Err(<<78, 111, 116, 32, 101, 110, 111, 117, 103, 104, 32, 100, 97, 116, 97, 32, 102, 111, 114, 32, 80, 117, 98, 107, 101, 121>>)
            ELSE Ok(JString(pubkey_to_string(SubSeq(data, 1, 32))), 32)
        ELSE IF t = TypeName.bytes THEN
            hex(decode_bytes(data))
        ELSE IF StartsWith(t, TypeName.option) /\ EndsWith(t, <<62>>) THEN
            \* "Unexpected end of data for option"
            IF data = <<>> THEN Err(<<85, 110, 101, 120, 112, 101, 99, 116, 101, 100, 32, 101, 110, 100, 32, 111, 102, 32, 100, 97, 116, 97, 32, 102, 111, 114, 32, 111, 112, 116, 105, 111, 110>>)
            ELSE IF data[1] # 0 THEN
                some(decode_field(SliceFrom(data, 1), 0, JString(SubSeq(t, 8, Len(t) - 1))))
            ELSE Ok(JNull, 1)
        ELSE IF StartsWith(t, TypeName.vec) /\ EndsWith(t, <<62>>) THEN
            decode_vec(data, SubSeq(t, 5, Len(t) - 1))
        ELSE IF StartsWith(t, <<91>>) /\ Contains(t, <<59>>) THEN
            LET parts == SplitAt(SubSeq(t, 2, Len(t) - 1), 59)
            IN  IF Len(parts) # 2 THEN Err(<<73, 110, 118, 97, 108, 105, 100, 32, 97, 114, 114, 97, 121, 32, 116, 121, 112, 101, 58, 32>> \o t)
                ELSE IF parse_usize(TrimText(parts[2])) < 0
                    THEN Err(<<73, 110, 118, 97, 108, 105, 100, 32, 97, 114, 114, 97, 121, 32, 108, 101, 110, 103, 116, 104, 58, 32>> \o parts[2])
                ELSE IF ~with_capacity(parse_usize(TrimText(parts[2])))
                    \* "memory allocation failed"
                    THEN alloc_failure(parse_usize(TrimText(parts[2])))
                ELSE decode_array_loop(data, TrimText(parts[1]),
                                       parse_usize(TrimText(parts[2])), <<>>, 0)
        ELSE Err(<<85, 110, 115, 117, 112, 112, 111, 114, 116, 101, 100, 32, 102, 105, 101, 108, 100, 32, 116, 121, 112, 101, 58, 32>> \o t
                 \o <<46, 32, 67, 111, 110, 115, 105, 100, 101, 114, 32, 117, 115, 105, 110, 103, 32, 104, 101, 120, 32, 101, 110, 99, 111, 100, 105, 110, 103, 46>>)

\* The loop of decode_fixed_array: `left` more elements, each by
\* decode_simple_type.
decode_fixed_array_loop(data, inner_type, left, arr, offset) ==
    IF left = 0 THEN Ok(JArray(arr), offset)
    ELSE LET next(r) ==
                 IF ~r.ok THEN r
                 ELSE decode_fixed_array_loop(data, inner_type, left - 1,
                                              Append(arr, r.value), offset + r.n)
         IN  next(decode_simple_type(SliceFrom(data, offset), inner_type))

\* decode_fixed_array: `size` elements of inner_type, no length prefix.
decode_fixed_array(data, inner_type, size) ==
    \* "memory allocation failed"
    IF ~with_capacity(size) THEN alloc_failure(size)
    ELSE decode_fixed_array_loop(data, inner_type, size, <<>>, 0)

\* decode_complex_type: {"array": [T, N]} or {"defined": {"name": ..}}.
decode_complex_type(data, obj) ==
    LET array == obj[Key.array]
        isArray ==
            /\ Key.array \in DOMAIN obj
            /\ array.t = "array"
            /\ Len(array.v) = 2
            /\ array.v[1].t = "string"
            /\ array.v[2].t = "number"
            /\ as_u64(array.v[2].v) >= 0
        defined == obj[Key.defined]
        isDefined ==
            /\ Key.defined \in DOMAIN obj
            /\ defined.t = "object"
            /\ Key.name \in DOMAIN defined.v
            /\ defined.v[Key.name].t = "string"
    IN  IF isArray THEN decode_fixed_array(data, array.v[1].v, as_u64(array.v[2].v))
        ELSE IF isDefined
            THEN Err(<<68, 101, 102, 105, 110, 101, 100, 32, 116, 121, 112, 101, 32, 39>> \o defined.v[Key.name].v
                     \o <<39, 32, 110, 111, 116, 32, 121, 101, 116, 32, 115, 117, 112, 112, 111, 114, 116, 101, 100>>)
        ELSE Err(<<85, 110, 115, 117, 112, 112, 111, 114, 116, 101, 100, 32, 99, 111, 109, 112, 108, 101, 120, 32, 116, 121, 112, 101, 58, 32>> \o map_debug(obj))

RECURSIVE decode_loop_unchecked(_, _, _, _, _)
\* decode's loop without the comparison of the offset with the input length.
decode_loop_unchecked(data, fields, i, result, offset) ==
    IF i > Len(fields) THEN Ok(JObject(result), offset)
    ELSE LET next(r) ==
                 IF ~r.ok THEN r
                 ELSE decode_loop_unchecked(data, fields, i + 1,
                                            MapInsert(result, fields[i].name, r.value),
                                            offset + r.n)
         IN  next(decode_field(data, offset, fields[i].field_type))

RECURSIVE decode_loop(_, _, _, _, _)
\* The loop of decode over the fields from index i, with the map and offset so far.
decode_loop(data, fields, i, result, offset) ==
    IF i > Len(fields) THEN
        IF offset # Len(data)
        THEN Err(<<68, 97, 116, 97, 32, 108, 101, 110, 103, 116, 104, 32, 109, 105, 115, 109, 97, 116, 99, 104, 58, 32, 100, 101, 99, 111, 100, 101, 100, 32>> \o to_string(FromNat(offset))
                 \o <<32, 98, 121, 116, 101, 115, 44, 32, 98, 117, 116, 32, 100, 97, 116, 97, 32, 105, 115, 32>> \o to_string(FromNat(Len(data)))
                 \o <<32, 98, 121, 116, 101, 115>>)
        ELSE Ok(JObject(result), offset)
    ELSE LET next(r) ==
                 IF ~r.ok THEN r
                 ELSE decode_loop(data, fields, i + 1,
                                  MapInsert(result, fields[i].name, r.value), offset + r.n)
         IN  next(decode_field(data, offset, fields[i].field_type))

\* IdlEventDecoder::decode: every field in order, then the length check.
decode(data, fields) == decode_loop(data, fields, 1, <<>>, 0)

(***************************************************************************)
(* Schema registry (idl.rs) and program prefixes (types.rs).               *)
(***************************************************************************)

\* Option<T>.
None == [some |-> FALSE]
Some(v) == [some |-> TRUE, v |-> v]

\* calculate_discriminator without the "event:" namespace.
calculate_discriminator_unprefixed(event_name) == SubSeq(Sha256(event_name), 1, 8)

\* IdlParser::calculate_discriminator: sha256("event:<event_name>")[..8].
calculate_discriminator(event_name) ==
    LET preimage == EventPrefix \o event_name
    IN  SubSeq(Sha256(preimage), 1, 8)

\* The event names the IDLs of this model declare.
EventName ==
    [Transfer      |-> <<84, 114, 97, 110, 115, 102, 101, 114>>,
     Mint          |-> <<77, 105, 110, 116>>,
     PaymentRecord |-> <<80, 97, 121, 109, 101, 110, 116, 82, 101, 99, 111, 114, 100>>,
     \* "LiquidityPoolRebalancedWithProtocolFeeAdjustmentEvent": with "event:" a
     \* message of two SHA-256 blocks
     Long          |-> <<76, 105, 113, 117, 105, 100, 105, 116, 121, 80, 111, 111, 108, 82, 101, 98, 97, 108, 97, 110, 99, 101, 100, 87, 105, 116, 104, 80, 114, 111, 116, 111, 99, 111, 108, 70, 101, 101, 65, 100, 106, 117, 115, 116, 109, 101, 110, 116, 69, 118, 101, 110, 116>>,
     Empty         |-> <<>>]
\* The names the IDL documents declare, and the names that are hashed.
EventNames == {EventName.Transfer, EventName.Mint, EventName.PaymentRecord}
HashedNames == EventNames \cup {EventName.Long, EventName.Empty}

\* calculate_discriminator on the declared names, evaluated once: the hash of
\* a name does not change between calls.
KnownDiscriminator == [name \in HashedNames |-> calculate_discriminator(name)]

\* The discriminator find_event_by_discriminator computes for a declaration.
discriminator_of(event_name) ==
    IF event_name \in HashedNames THEN KnownDiscriminator[event_name]
    ELSE calculate_discriminator(event_name)

\* serde_json::from_value::<Vec<IdlField>>: an array of objects that each have
\* a string "name" and a "type"; None when the value is anything else.
fields_from_value(fields) ==
    IF fields.t = "array"
       /\ \A i \in 1..Len(fields.v) :
            /\ fields.v[i].t = "object"
            /\ {Key.name, Key.type} \subseteq DOMAIN fields.v[i].v
            /\ fields.v[i].v[Key.name].t = "string"
    THEN Some([i \in 1..Len(fields.v) |->
                  [name |-> fields.v[i].v[Key.name].v, field_type |-> fields.v[i].v[Key.type]]])
    ELSE None

RECURSIVE find_in_types_unnamed(_, _, _)
\* The search of the types array without the comparison of the names: the
\* first struct whose fields parse.
find_in_types_unnamed(types, event, i) ==
    IF i > Len(types) THEN None
    ELSE LET type_def == types[i]
             type_obj == type_def.v[Key.type]
             struct ==
                 /\ type_def.t = "object"
                 /\ Key.type \in DOMAIN type_def.v
                 /\ type_obj.t = "object"
                 /\ Key.kind \in DOMAIN type_obj.v
                 /\ type_obj.v[Key.kind].t = "string"
                 /\ type_obj.v[Key.kind].v = <<115, 116, 114, 117, 99, 116>>
                 /\ Key.fields \in DOMAIN type_obj.v
         IN  IF struct /\ fields_from_value(type_obj.v[Key.fields]).some
             THEN Some([name |-> event.name,
                        fields |-> fields_from_value(type_obj.v[Key.fields]),
                        type |-> Some(type_obj)])
             ELSE find_in_types_unnamed(types, event, i + 1)

RECURSIVE find_in_types(_, _, _)
\* The loop of find_event_by_discriminator over the types array from index i:
\* the first struct named like the event whose fields parse.
find_in_types(types, event, i) ==
    IF i > Len(types) THEN None
    ELSE LET type_def == types[i]
             named ==
                 /\ type_def.t = "object"
                 /\ Key.name \in DOMAIN type_def.v
                 /\ type_def.v[Key.name].t = "string"
                 /\ type_def.v[Key.name].v = event.name
                 /\ Key.type \in DOMAIN type_def.v
             type_obj == type_def.v[Key.type]
             struct ==
                 /\ named
                 /\ type_obj.t = "object"
                 /\ Key.kind \in DOMAIN type_obj.v
                 /\ type_obj.v[Key.kind].t = "string"
                 /\ type_obj.v[Key.kind].v = <<115, 116, 114, 117, 99, 116>>
                 /\ Key.fields \in DOMAIN type_obj.v
         IN  IF struct /\ fields_from_value(type_obj.v[Key.fields]).some
             THEN Some([name |-> event.name,
                        fields |-> fields_from_value(type_obj.v[Key.fields]),
                        type |-> Some(type_obj)])
             ELSE find_in_types(types, event, i + 1)

\* The lookup without the comparison of the discriminators: the first event
\* the program declares.
find_event_by_discriminator_any(program_id, discriminator) ==
    IF program_id \notin DOMAIN idl_parser THEN None
    ELSE IF idl_parser[program_id].events = <<>> THEN None
    ELSE Some(idl_parser[program_id].events[1])

\* IdlParser::find_event_by_discriminator: the first event of the program's IDL
\* with that discriminator; when it declares no fields, with the fields of the
\* struct of the same name in the type table, if there is one.
find_event_by_discriminator(program_id, discriminator) ==
    LET matching(events) ==
            {i \in 1..Len(events) : discriminator_of(events[i].name) = discriminator}
        first(hits) == CHOOSE i \in hits : \A j \in hits : i <= j
        or_event(event, from_types) ==
            IF event.fields.some THEN Some(event)
            ELSE IF from_types.some THEN from_types
            ELSE Some(event)
        with_fields(idl, event) ==
            or_event(event,
                     IF idl.types.some THEN find_in_types(idl.types.v, event, 1) ELSE None)
        found(idl, hits) ==
            IF hits = {} THEN None ELSE with_fields(idl, idl.events[first(hits)])
    IN  IF program_id \notin DOMAIN idl_parser THEN None
        ELSE found(idl_parser[program_id], matching(idl_parser[program_id].events))

\* ProgramPrefixConfig::get_prefix.
get_prefix(program_id) ==
    IF program_id \in DOMAIN prefix_config.program_mappings
    THEN prefix_config.program_mappings[program_id]
    ELSE prefix_config.default_prefix

(***************************************************************************)
(* The decode orchestrator (event.rs).                                     *)
(***************************************************************************)

\* A number as `width` decimal digits, zero-padded ({:0width}).
Digits(n, width) == [i \in 1..width |-> 48 + ((n \div (10^(width - i))) % 10)]

\* DateTime<Utc>::to_rfc3339 of the instant [secs, nanos] since the epoch:
\* "YYYY-MM-DDTHH:MM:SS", the fraction in 3, 6 or 9 digits when it is not zero,
\* then "+00:00".
to_rfc3339(instant) ==
    LET days == instant.secs \div 86400
        rem == instant.secs % 86400
        z == days + 719468
        era == z \div 146097
        doe == z - era * 146097
        yoe == (doe - (doe \div 1460) + (doe \div 36524) - (doe \div 146096)) \div 365
        doy == doe - (365 * yoe + (yoe \div 4) - (yoe \div 100))
        mp == (5 * doy + 2) \div 153
        day == doy - ((153 * mp + 2) \div 5) + 1
        month == IF mp < 10 THEN mp + 3 ELSE mp - 9
        year == yoe + era * 400 + (IF month <= 2 THEN 1 ELSE 0)
        fraction ==
            IF instant.nanos = 0 THEN <<>>
            ELSE IF instant.nanos % 1000000 = 0
                THEN <<46>> \o Digits(instant.nanos \div 1000000, 3)
            ELSE IF instant.nanos % 1000 = 0
                THEN <<46>> \o Digits(instant.nanos \div 1000, 6)
            ELSE <<46>> \o Digits(instant.nanos, 9)
    IN  Digits(year, 4) \o <<45>> \o Digits(month, 2) \o <<45>> \o Digits(day, 2)
        \o <<84>> \o Digits(rem \div 3600, 2) \o <<58>> \o Digits((rem \div 60) % 60, 2)
        \o <<58>> \o Digits(rem % 60, 2) \o fraction \o <<43, 48, 48, 58, 48, 48>>

\* Ok(value) of a Result whose value carries no byte count.
OkValue(value) == [ok |-> TRUE, value |-> value]

\* format!("{:02x?}", discriminator): "[2a, 64, ..]".
debug_hex(bs) ==
    LET pieces == [i \in 1..Len(bs) |->
                      (IF i = 1 THEN <<>> ELSE <<44, 32>>) \o hex_encode(<<bs[i]>>)]
        Join[i \in 0..Len(bs)] == IF i = 0 THEN <<>> ELSE Join[i - 1] \o pieces[i]
    IN  <<91>> \o Join[Len(bs)] \o <<93>>

\* EventDecoder::decode_event_data: the decoded document, or on a decode error
\* the hex fallback document. A panic or an abort is no Result and unwinds.
decode_event_data(program_id, signature, event_def, data) ==
    LET fallback(fields, e) ==
            (Key.hex :> JString(hex_encode_upper(data)))
            @@ (Key.length :> JNumber(FromNat(Len(data))))
            @@ (Key.decode_error :> JString(error_to_string(e)))
            @@ (Key.event_name :> JString(event_def.name))
            @@ (Key.field_count :> JNumber(FromNat(Len(fields))))
            @@ (Key.timestamp :> JString(to_rfc3339(clock)))
        result(fields, decoded) ==
            IF decoded.ok THEN OkValue(decoded.value)
            ELSE IF decoded.err.kind \in {"panic", "abort"} THEN decoded
            ELSE OkValue(JObject(fallback(fields, decoded.err)))
        with(fields) == result(fields, decode(data, fields))
    IN  with(IF event_def.fields.some THEN event_def.fields.v ELSE <<>>)

\* decode_event without the check of the blob's length: data[..8] panics.
decode_event_unchecked(program_id, signature, data) ==
    LET named(discriminator, event_def, decoded) ==
            IF ~decoded.ok THEN decoded
            ELSE OkValue([event_name |-> get_prefix(program_id) \o <<95>> \o event_def.name,
                          data |-> decoded.value,
                          discriminator |-> discriminator])
        matched(discriminator, event_def) ==
            IF ~event_def.some
            \* "No event found with discriminator: " and the bytes as {:02x?}
            THEN Err(<<78, 111, 32, 101, 118, 101, 110, 116, 32, 102, 111, 117, 110, 100, 32, 119, 105, 116, 104, 32, 100, 105, 115, 99, 114, 105, 109, 105, 110, 97, 116, 111, 114, 58, 32>> \o debug_hex(discriminator))
            ELSE named(discriminator, event_def.v,
                       decode_event_data(program_id, signature, event_def.v,
                                         SliceFrom(data, 8)))
    \* "range end index 8 out of range for slice"
    IN  IF Len(data) < 8 THEN Panic(<<114, 97, 110, 103, 101, 32, 101, 110, 100, 32, 105, 110, 100, 101, 120, 32, 56, 32, 111, 117, 116, 32, 111, 102, 32, 114, 97, 110, 103, 101, 32, 102, 111, 114, 32, 115, 108, 105, 99, 101>>)
        ELSE matched(SubSeq(data, 1, 8),
                     find_event_by_discriminator(program_id, SubSeq(data, 1, 8)))

\* EventDecoder::decode_event.
decode_event(program_id, signature, data) ==
    LET named(discriminator, event_def, decoded) ==
            IF ~decoded.ok THEN decoded
            ELSE OkValue([event_name |-> get_prefix(program_id) \o <<95>> \o event_def.name,
                          data |-> decoded.value,
                          discriminator |-> discriminator])
        matched(discriminator, event_def) ==
            IF ~event_def.some
            \* "No event found with discriminator: " and the bytes as {:02x?}
            THEN Err(<<78, 111, 32, 101, 118, 101, 110, 116, 32, 102, 111, 117, 110, 100, 32, 119, 105, 116, 104, 32, 100, 105, 115, 99, 114, 105, 109, 105, 110, 97, 116, 111, 114, 58, 32>> \o debug_hex(discriminator))
            ELSE named(discriminator, event_def.v,
                       decode_event_data(program_id, signature, event_def.v,
                                         SliceFrom(data, 8)))
    \* "Event data too short (< 8 bytes)"
    IN  IF Len(data) < 8 THEN Err(<<69, 118, 101, 110, 116, 32, 100, 97, 116, 97, 32, 116, 111, 111, 32, 115, 104, 111, 114, 116, 32, 40, 60, 32, 56, 32, 98, 121, 116, 101, 115, 41>>)
        ELSE matched(SubSeq(data, 1, 8),
                     find_event_by_discriminator(program_id, SubSeq(data, 1, 8)))

(***************************************************************************)
(* Storage backends (db/sqlite.rs, db/postgres.rs, db/mongodb.rs). A       *)
(* backend is [backend, rows, sequence, random]: its kind, the rows of the *)
(* events table (collection) in insertion order, the last value of its id  *)
(* allocator and, for MongoDB, the driver's 5 random ObjectId bytes.       *)
(* The store itself does not fail here: every error is one the statements  *)
(* of the code provoke.                                                    *)
(***************************************************************************)

\* Database::new(url) followed by run_migrations: an empty events table with
\* its indexes, of the backend the URL scheme selects.
new_backend(kind, random) ==
    [backend |-> kind, rows |-> <<>>, sequence |-> 0, random |-> random]

\* The rows the unique index on signature finds for a signature.
rows_with_signature(db, signature) ==
    {i \in 1..Len(db.rows) : db.rows[i].signature = signature}

\* Err(SoltraceError::Sqlx(e)) for the database error text e.
ErrSqlx(msg) == [ok |-> FALSE, err |-> [kind |-> "Sqlx", msg |-> msg]]
\* Err(SoltraceError::Database(msg)).
ErrDatabase(msg) == [ok |-> FALSE, err |-> [kind |-> "Database", msg |-> msg]]

\* SqliteBackend::insert_event: INSERT under the unique index on signature;
\* the id is the AUTOINCREMENT rowid, returned as decimal text.
sqlite_insert_event(db, event, raw) ==
    LET discriminator_hex == hex_encode_upper(event.discriminator)
        id == db.sequence + 1
        row == [id |-> id,
                slot |-> raw.slot,
                signature |-> raw.signature,
                program_id |-> pubkey_to_string(raw.program_id),
                event_name |-> event.event_name,
                discriminator |-> discriminator_hex,
                data |-> json_to_string(event.data),
                timestamp |-> to_rfc3339(raw.timestamp)]
    IN  IF rows_with_signature(db, raw.signature) # {}
        THEN [db |-> db,
              result |-> ErrSqlx(<<101, 114, 114, 111, 114, 32, 114, 101, 116, 117, 114, 110, 101, 100, 32, 102, 114, 111, 109, 32, 100, 97, 116, 97, 98, 97, 115, 101, 58, 32, 40, 99, 111, 100, 101, 58, 32, 50, 48, 54, 55, 41, 32, 85, 78, 73, 81, 85, 69, 32, 99, 111, 110, 115, 116, 114, 97, 105, 110, 116, 32, 102, 97, 105, 108, 101, 100, 58, 32, 101, 118, 101, 110, 116, 115, 46, 115, 105, 103, 110, 97, 116, 117, 114, 101>>)]
        ELSE [db |-> [db EXCEPT !.rows = Append(@, row), !.sequence = id],
              result |-> OkValue(to_string(FromNat(id)))]

\* PostgresBackend::insert_event: INSERT .. RETURNING id under UNIQUE(signature);
\* the id is the next value of the BIGSERIAL sequence, which a rejected insert
\* has consumed too.
postgres_insert_event(db, event, raw) ==
    LET discriminator_hex == hex_encode_upper(event.discriminator)
        id == db.sequence + 1
        row == [id |-> id,
                slot |-> raw.slot,
                signature |-> raw.signature,
                program_id |-> pubkey_to_string(raw.program_id),
                event_name |-> event.event_name,
                discriminator |-> discriminator_hex,
                data |-> event.data,
                timestamp |-> raw.timestamp]
    IN  IF rows_with_signature(db, raw.signature) # {}
        THEN [db |-> [db EXCEPT !.sequence = id],
              result |-> ErrSqlx(<<101, 114, 114, 111, 114, 32, 114, 101, 116, 117, 114, 110, 101, 100, 32, 102, 114, 111, 109, 32, 100, 97, 116, 97, 98, 97, 115, 101, 58, 32, 100, 117, 112, 108, 105, 99, 97, 116, 101, 32, 107, 101, 121, 32, 118, 97, 108, 117, 101, 32, 118, 105, 111, 108, 97, 116, 101, 115, 32, 117, 110, 105, 113, 117, 101, 32, 99, 111, 110, 115, 116, 114, 97, 105, 110, 116, 32, 34, 101, 118, 101, 110, 116, 115, 95, 115, 105, 103, 110, 97, 116, 117, 114, 101, 95, 107, 101, 121, 34>>)]
        ELSE [db |-> [db EXCEPT !.rows = Append(@, row), !.sequence = id],
              result |-> OkValue(to_string(FromNat(id)))]

\* ObjectId::new(): 4 bytes of seconds, the 5 random bytes, a 3-byte counter,
\* all big-endian; as 24 hex digits.
object_id(db, counter) ==
    hex_encode(<<(clock.secs \div 16777216) % 256, (clock.secs \div 65536) % 256,
                 (clock.secs \div 256) % 256, clock.secs % 256>>
               \o db.random
               \o <<(counter \div 65536) % 256, (counter \div 256) % 256, counter % 256>>)

\* MongoDbBackend::insert_event: insert_one of a document without _id under the
\* unique index on signature; the id is the ObjectId the driver generates.
mongodb_insert_event(db, event, raw) ==
    LET discriminator_hex == hex_encode_upper(event.discriminator)
        counter == db.sequence + 1
        doc == [id |-> object_id(db, counter),
                slot |-> raw.slot,
                signature |-> raw.signature,
                event_name |-> event.event_name,
                discriminator |-> discriminator_hex,
                data |-> event.data,
                timestamp |-> raw.timestamp]
    IN  IF event.data.t # "object"
        THEN [db |-> db,
              result |-> ErrDatabase(<<70, 97, 105, 108, 101, 100, 32, 116, 111, 32, 99, 111, 110, 118, 101, 114, 116, 32, 101, 118, 101, 110, 116, 32, 100, 97, 116, 97, 32, 116, 111, 32, 66, 83, 79, 78, 58, 32>>
                                     \o <<105, 110, 118, 97, 108, 105, 100, 32, 116, 121, 112, 101, 58, 32, 101, 120, 112, 101, 99, 116, 101, 100, 32, 97, 32, 100, 111, 99, 117, 109, 101, 110, 116>>)]
        ELSE IF rows_with_signature(db, raw.signature) # {}
        THEN [db |-> [db EXCEPT !.sequence = counter],
              \* "Failed to insert event: " and the driver's E11000 write error
              result |-> ErrDatabase(<<70, 97, 105, 108, 101, 100, 32, 116, 111, 32, 105, 110, 115, 101, 114, 116, 32, 101, 118, 101, 110, 116, 58, 32, 69, 49, 49, 48, 48, 48, 32, 100, 117, 112, 108, 105, 99, 97, 116, 101, 32, 107, 101, 121, 32, 101, 114, 114, 111, 114, 32, 99, 111, 108, 108, 101, 99, 116, 105, 111, 110, 58, 32, 115, 111, 108, 116, 114, 97, 99, 101, 46, 101, 118, 101, 110, 116, 115, 32, 105, 110, 100, 101, 120, 58, 32, 115, 105, 103, 110, 97, 116, 117, 114, 101, 95, 49>>)]
        ELSE [db |-> [db EXCEPT !.rows = Append(@, doc), !.sequence = counter],
              result |-> OkValue(<<79, 98, 106, 101, 99, 116, 73, 100, 40, 34>> \o doc.id \o <<34, 41>>)]

\* insert_event on a table without the unique index on signature.
insert_event_unindexed(db, event, raw) ==
    [db |-> [db EXCEPT !.rows = Append(@, [id |-> db.sequence + 1,
                                           signature |-> raw.signature,
                                           event_name |-> event.event_name]),
                       !.sequence = @ + 1],
     result |-> OkValue(to_string(FromNat(db.sequence + 1)))]

\* Database::insert_event: the backend's insert_event.
insert_event(db, event, raw) ==
    IF db.backend = "sqlite" THEN sqlite_insert_event(db, event, raw)
    ELSE IF db.backend = "postgres" THEN postgres_insert_event(db, event, raw)
    ELSE mongodb_insert_event(db, event, raw)

\* Database::event_exists: COUNT(*) (count_documents) by signature > 0.
event_exists(db, signature) ==
    LET count == Cardinality(rows_with_signature(db, signature))
    IN  OkValue(count > 0)

(***************************************************************************)
(* Log-line extraction (utils.rs) and the live handler                     *)
(* (soltrace-live/src/main.rs).                                            *)
(***************************************************************************)

\* The value of a character in the standard base64 alphabet, -1 outside it.
base64_value(c) ==
    IF c >= 65 /\ c <= 90 THEN c - 65
    ELSE IF c >= 97 /\ c <= 122 THEN c - 71
    ELSE IF c >= 48 /\ c <= 57 THEN c + 4
    ELSE IF c = 43 THEN 62
    ELSE IF c = 47 THEN 63
    ELSE -1

\* The bytes of one quantum of 4 characters, None when it is not canonical:
\* '=' only as the last one or two characters, no set bits under the padding.
base64_quantum(q, last) ==
    LET v == [i \in 1..4 |-> base64_value(q[i])]
    IN  IF v[1] < 0 \/ v[2] < 0 THEN None
        ELSE IF last /\ q[3] = 61 /\ q[4] = 61
        THEN IF v[2] % 16 # 0 THEN None
             ELSE Some(<<v[1] * 4 + v[2] \div 16>>)
        ELSE IF v[3] < 0 THEN None
        ELSE IF last /\ q[4] = 61
        THEN IF v[3] % 4 # 0 THEN None
             ELSE Some(<<v[1] * 4 + v[2] \div 16, (v[2] % 16) * 16 + v[3] \div 4>>)
        ELSE IF v[4] < 0 THEN None
        ELSE Some(<<v[1] * 4 + v[2] \div 16, (v[2] % 16) * 16 + v[3] \div 4,
                    (v[3] % 4) * 64 + v[4]>>)

\* STANDARD.decode: padded base64 of the standard alphabet.
RECURSIVE base64_decode(_)
base64_decode(text) ==
    IF Len(text) = 0 THEN Some(<<>>)
    ELSE IF Len(text) < 4 THEN None
    ELSE LET head == base64_quantum(SubSeq(text, 1, 4), Len(text) = 4)
             rest == base64_decode(SliceFrom(text, 4))
         IN  IF ~head.some \/ ~rest.some THEN None
             ELSE Some(head.v \o rest.v)

\* A mutant of extract_event_from_log: the line is not searched for the
\* program address.
extract_event_from_any_program(log, program_id_str) ==
    IF StartsWith(log, ProgramDataPrefix)
    THEN base64_decode(TrimText(SliceFrom(log, Len(ProgramDataPrefix))))
    ELSE None

\* utils::extract_event_from_log(log, program_id_str): the decoded payload of a
\* "Program data: " line that also contains the program address.
extract_event_from_log(log, program_id_str) ==
    IF StartsWith(log, ProgramDataTag)
    THEN IF ~StartsWith(log, ProgramDataPrefix) THEN None
         ELSE LET data_str == TrimText(SliceFrom(log, Len(ProgramDataPrefix)))
                  data == base64_decode(data_str)
              IN  IF data.some /\ Contains(log, program_id_str) THEN data ELSE None
    ELSE None

\* The extractor of the live handler, which takes the line only: the decoded
\* payload of a "Program data: " line, whichever program emitted it.
extract_event_from_log_line(log) ==
    IF StartsWith(log, ProgramDataPrefix)
    THEN base64_decode(TrimText(SliceFrom(log, Len(ProgramDataPrefix))))
    ELSE None

\* Two program ids (Pubkey, 32 bytes) and their addresses (base58 text).
PubkeyA == [i \in 1..32 |-> i]
PubkeyB == [i \in 1..32 |-> 0]
Pubkeys == {PubkeyA, PubkeyB}
Address == [p \in Pubkeys |-> pubkey_to_string(p)]

\* program_id.to_string(): the address, from the table for these two ids.
program_id_to_string(program_id) ==
    IF program_id \in Pubkeys THEN Address[program_id] ELSE pubkey_to_string(program_id)

\* The two loops of process_logs_message from line i and program j on:
\* [db, result, logged]; the result is Ok(events_found), or the panic or abort
\* that ended the handler; logged is the level of each line logged.
RECURSIVE process_logs_loop(_, _, _, _, _, _, _)
process_logs_loop(message, program_ids, db, i, j, events_found, logged) ==
    LET next(db_next, found, lines) ==
            process_logs_loop(message, program_ids, db_next, i, j + 1, found,
                              logged \o lines)
        level(err_str) ==
            IF Contains(err_str, <<85, 78, 73, 81, 85, 69, 32, 99, 111, 110, 115, 116, 114, 97, 105, 110, 116>>) \/ Contains(err_str, <<100, 117, 112, 108, 105, 99, 97, 116, 101>>)
            THEN "debug" ELSE "error"
        store(stored) ==
            IF stored.result.ok THEN next(stored.db, events_found + 1, <<"info">>)
            ELSE next(stored.db, events_found,
                      <<level(error_to_string(stored.result.err))>>)
        raw_event(program_id, log) ==
            [slot |-> 0,
             signature |-> message.signature,
             program_id |-> program_id,
             log |-> log,
             timestamp |-> clock]
        decoded_as(program_id, log, decoded) ==
            IF decoded.ok
            THEN store(insert_event(db, decoded.value, raw_event(program_id, log)))
            ELSE IF decoded.err.kind \in {"panic", "abort"}
            THEN [db |-> db, result |-> decoded, logged |-> logged]
            ELSE next(db, events_found, <<"debug">>)
        extracted(program_id, log, event_data) ==
            IF event_data.some
            THEN decoded_as(program_id, log,
                            decode_event(program_id_to_string(program_id), message.signature,
                                         event_data.v))
            ELSE next(db, events_found, <<>>)
    IN  IF i > Len(message.logs)
        THEN [db |-> db, result |-> OkValue(events_found), logged |-> logged]
        ELSE IF j > Len(program_ids)
        THEN process_logs_loop(message, program_ids, db, i + 1, 1, events_found, logged)
        ELSE extracted(program_ids[j], message.logs[i],
                       extract_event_from_log_line(message.logs[i]))

\* process_logs_message: a failed transaction is skipped; every line is tried
\* against every configured program and each decoded event is inserted.
process_logs_message(message, program_ids, db) ==
    IF message.err.some
    THEN [db |-> db, result |-> OkValue(0), logged |-> <<"debug">>]
    ELSE process_logs_loop(message, program_ids, db, 1, 1, 0, <<>>)

(***************************************************************************)
(* Inputs: program ids, IDL documents, payloads, integer samples.          *)
(***************************************************************************)

ProgramIds == {Address[p] : p \in Pubkeys}

\* IdlField { name, type } with a type given by name.
Field(name, ty) == [name |-> name, field_type |-> JString(ty)]
\* IdlEventDefinition { name, fields, type }.
EventDef(name, fields) == [name |-> name, fields |-> fields, type |-> None]
\* An entry {"name": .., "type": {"kind": "struct", "fields": [..]}} of "types".
TypeDef(name, fields) ==
    JObject((Key.name :> JString(name))
            @@ (Key.type :> JObject((Key.kind :> JString(<<115, 116, 114, 117, 99, 116>>))
                                    @@ (Key.fields :> JArray(
                                            [i \in 1..Len(fields) |->
                                                JObject((Key.name :> JString(fields[i].name))
                                                        @@ (Key.type :> fields[i].field_type))])))))

\* The IDL documents (ParsedIdl) that are loaded: events with inline fields,
\* events that a vector, an unsupported type or no field list decodes, events
\* whose fields are in the type table, and an IDL of the second program.
IdlInline ==
    [address |-> Address[PubkeyA],
     events |-> <<EventDef(EventName.Transfer, Some(<<Field(<<97, 109, 111, 117, 110, 116>>, TypeName.u64)>>)),
                  EventDef(EventName.Mint, Some(<<Field(<<97>>, TypeName.u32),
                                                  Field(<<98>>, TypeName.u64)>>)),
                  EventDef(EventName.PaymentRecord, Some(<<Field(<<109, 101, 109, 111>>, TypeName.string)>>))>>,
     types |-> None]
IdlVec ==
    [address |-> Address[PubkeyA],
     events |-> <<EventDef(EventName.Transfer, Some(<<Field(<<100, 97, 116, 97>>, <<118, 101, 99, 60, 117, 56, 62>>)>>)),
                  EventDef(EventName.Mint, Some(<<Field(<<120>>, <<102, 51, 50>>)>>)),
                  EventDef(EventName.PaymentRecord, None)>>,
     types |-> None]
IdlTypes ==
    [address |-> Address[PubkeyA],
     events |-> <<EventDef(EventName.Transfer, None), EventDef(EventName.Mint, None)>>,
     types |-> Some(<<TypeDef(EventName.Mint, <<Field(<<116, 111>>, TypeName.i64)>>),
                      TypeDef(EventName.Transfer, <<Field(<<97, 109, 111, 117, 110, 116>>, TypeName.u64)>>)>>)]
IdlOther ==
    [address |-> Address[PubkeyB],
     events |-> <<EventDef(EventName.Transfer, Some(<<Field(<<102, 108, 97, 103>>, TypeName.bool),
                                                      Field(<<97, 109, 111, 117, 110, 116>>, TypeName.i8)>>))>>,
     types |-> None]
Idls == {IdlInline, IdlVec, IdlTypes, IdlOther}

\* Prefixes given on the command line (--prefix id:prefix).
Prefixes == { <<116, 114, 105, 98>> }

\* Payloads (the bytes after the discriminator): empty, three bytes, a u64,
\* a length prefix of u32::MAX, a u32 and a u64, strings that are and are not
\* UTF-8, and a u64 with a byte too many.
Payloads ==
    {<<>>, <<1, 2, 3>>, <<1, 0, 0, 0, 0, 0, 0, 0>>, <<255, 255, 255, 255>>,
     <<42, 0, 0, 0, 255, 255, 255, 255, 255, 255, 255, 255>>,
     <<2, 0, 0, 0, 104, 105>>, <<1, 0, 0, 0, 255>>, <<3, 0, 0, 0, 7, 8, 9>>,
     <<1, 0, 0, 0, 0, 0, 0, 0, 0>>, <<1, 255>>}

\* A discriminator that no declared event has.
UnknownDiscriminator == <<0, 0, 0, 0, 0, 0, 0, 0>>

\* The blobs handed to decode_event: every known and one unknown
\* discriminator before every payload, and one blob of under 8 bytes.
Blobs ==
    {KnownDiscriminator[name] \o p : name \in EventNames, p \in Payloads}
    \cup {UnknownDiscriminator \o p : p \in Payloads}
    \cup {<<42, 100, 253>>}

\* The instants the system clock shows (seconds and nanoseconds since the epoch).
Instants == <<[secs |-> 1700000000, nanos |-> 0],
              [secs |-> 1700000001, nanos |-> 500000000]>>

\* The integer types of decode_simple_type: name, TLA tag of the Rust type,
\* width in bytes, signedness.
IntegerTypes ==
    {[name |-> TypeName.u8, size |-> 1, signed |-> FALSE],
     [name |-> TypeName.u16, size |-> 2, signed |-> FALSE],
     [name |-> TypeName.u32, size |-> 4, signed |-> FALSE],
     [name |-> TypeName.u64, size |-> 8, signed |-> FALSE],
     [name |-> TypeName.u128, size |-> 16, signed |-> FALSE],
     [name |-> TypeName.i8, size |-> 1, signed |-> TRUE],
     [name |-> TypeName.i16, size |-> 2, signed |-> TRUE],
     [name |-> TypeName.i32, size |-> 4, signed |-> TRUE],
     [name |-> TypeName.i64, size |-> 8, signed |-> TRUE],
     [name |-> TypeName.i128, size |-> 16, signed |-> TRUE]}

\* Values of each integer type, written in decimal: zero, small values, values
\* whose bytes all differ, the type's bounds.
Samples(ty) ==
    IF ty.name = TypeName.u8 THEN { <<48>>, <<52, 50>>, <<49, 50, 56>>, <<50, 53, 53>> }
    ELSE IF ty.name = TypeName.u16 THEN { <<48>>, <<50, 53, 56>>, <<51, 50, 55, 54, 56>>, <<54, 53, 53, 51, 53>> }
    ELSE IF ty.name = TypeName.u32 THEN { <<48>>, <<52, 50>>, <<49, 54, 57, 48, 57, 48, 54, 48>>, <<52, 50, 57, 52, 57, 54, 55, 50, 57, 53>> }
    ELSE IF ty.name = TypeName.u64
    THEN { <<48>>, <<52, 50>>, <<55, 50, 54, 50, 51, 56, 53, 57, 55, 57, 48, 51, 56, 50, 56, 53, 54>>, <<57, 50, 50, 51, 51, 55, 50, 48, 51, 54, 56, 53, 52, 55, 55, 53, 56, 48, 56>>,
           <<49, 56, 52, 52, 54, 55, 52, 52, 48, 55, 51, 55, 48, 57, 53, 53, 49, 54, 49, 53>> }
    ELSE IF ty.name = TypeName.u128
    THEN { <<48>>, <<49, 56, 52, 52, 54, 55, 52, 52, 48, 55, 51, 55, 48, 57, 53, 53, 49, 54, 49, 54>>,
           <<51, 52, 48, 50, 56, 50, 51, 54, 54, 57, 50, 48, 57, 51, 56, 52, 54, 51, 52, 54, 51, 51, 55, 52, 54, 48, 55, 52, 51, 49, 55, 54, 56, 50, 49, 49, 52, 53, 53>> }
    ELSE IF ty.name = TypeName.i8 THEN { <<48>>, <<49, 50, 55>>, <<45, 49>>, <<45, 49, 50, 56>> }
    ELSE IF ty.name = TypeName.i16 THEN { <<48>>, <<50, 53, 56>>, <<45, 50>>, <<45, 51, 50, 55, 54, 56>> }
    ELSE IF ty.name = TypeName.i32 THEN { <<52, 50>>, <<50, 49, 52, 55, 52, 56, 51, 54, 52, 55>>, <<45, 49>>, <<45, 50, 49, 52, 55, 52, 56, 51, 54, 52, 56>> }
    ELSE IF ty.name = TypeName.i64
    THEN { <<52, 50>>, <<57, 50, 50, 51, 51, 55, 50, 48, 51, 54, 56, 53, 52, 55, 55, 53, 56, 48, 55>>, <<45, 49>>, <<45, 57, 50, 50, 51, 51, 55, 50, 48, 51, 54, 56, 53, 52, 55, 55, 53, 56, 48, 56>> }
    ELSE { <<48>>, <<49, 55, 48, 49, 52, 49, 49, 56, 51, 52, 54, 48, 52, 54, 57, 50, 51, 49, 55, 51, 49, 54, 56, 55, 51, 48, 51, 55, 49, 53, 56, 56, 52, 49, 48, 53, 55, 50, 55>>, <<45, 49>>,
           <<45, 49, 55, 48, 49, 52, 49, 49, 56, 51, 52, 54, 48, 52, 54, 57, 50, 51, 49, 55, 51, 49, 54, 56, 55, 51, 48, 51, 55, 49, 53, 56, 56, 52, 49, 48, 53, 55, 50, 56>> }

RECURSIVE MulAdd(_, _, _)
\* bs * m + carry on fixed-width little-endian bytes.
MulAdd(bs, m, carry) ==
    IF bs = <<>> THEN <<>>
    ELSE LET cur == bs[1] * m + carry
         IN  <<cur % 256>> \o MulAdd(Tail(bs), m, cur \div 256)

RECURSIVE DecimalBytes(_, _)
\* The value of decimal digits on the fixed-width little-endian bytes acc.
DecimalBytes(digits, acc) ==
    IF digits = <<>> THEN acc
    ELSE DecimalBytes(Tail(digits), MulAdd(acc, 10, digits[1] - 48))

\* v.to_le_bytes() for the integer v of `size` bytes written in decimal:
\* little-endian, two's complement when negative.
to_le_bytes(text, size) ==
    LET neg == text[1] = 45
        mag == DecimalBytes(IF neg THEN Tail(text) ELSE text, [i \in 1..size |-> 0])
    IN  IF neg THEN AddOne([i \in 1..size |-> 255 - mag[i]]) ELSE mag

\* Bytes that follow an encoded value in the buffer.
Trailers == {<<>>, <<171>>}

(***************************************************************************)
(* The decoder as a state machine: the registry and the prefixes are set   *)
(* up, the clock advances, and a caller invokes one operation at a time    *)
(* and takes its result.                                                   *)
(***************************************************************************)

NoCall == [op |-> "none"]

\* The machines a build runs on: the largest capacity its allocator grants
\* and the width of usize on its target.
Machines ==
    { [alloc_limit |-> 2^20, target_pointer_width |-> 64],
      [alloc_limit |-> 2^30, target_pointer_width |-> 64],
      [alloc_limit |-> 2^20, target_pointer_width |-> 32] }


\* IdlParser::new(), ProgramPrefixConfig::new(); no database is open.
Init ==
    /\ idl_parser = <<>>
    /\ prefix_config = [default_prefix |-> DefaultPrefix, program_mappings |-> <<>>]
    /\ \E machine \in Machines :
          /\ alloc_limit = machine.alloc_limit
          /\ target_pointer_width = machine.target_pointer_width
    /\ clock = Instants[1]
    /\ call = NoCall
    /\ outcome = NoCall
    /\ databases = <<>>
    /\ history = <<>>

\* IdlParser::load_from_str of an IDL document: registered under its address.
LoadIdl(idl) ==
    /\ call = NoCall
    /\ idl_parser' = (idl.address :> idl) @@ idl_parser
    /\ UNCHANGED <<prefix_config, alloc_limit, target_pointer_width, clock, call, outcome, databases, history>>

\* ProgramPrefixConfig::add_mapping.
AddMapping(program_id, prefix) ==
    /\ call = NoCall
    /\ prefix_config' = [prefix_config EXCEPT
                            !.program_mappings = (program_id :> prefix) @@ @]
    /\ UNCHANGED <<idl_parser, alloc_limit, target_pointer_width, clock, call, outcome, databases, history>>

\* Time passes.
Tick ==
    /\ clock = Instants[1]
    /\ clock' = Instants[2]
    /\ UNCHANGED <<idl_parser, prefix_config, alloc_limit, target_pointer_width, call, outcome, databases, history>>

\* EventDecoder::decode_event(program_id, signature, data).
DecodeEvent(program_id, data) ==
    /\ call = NoCall
    /\ call' = [op |-> "decode_event", program_id |-> program_id, data |-> data]
    /\ outcome' = decode_event(program_id, <<>>, data)
    /\ UNCHANGED <<idl_parser, prefix_config, alloc_limit, target_pointer_width, clock, databases, history>>

\* IdlEventDecoder::decode_simple_type on v.to_le_bytes() and what follows it.
DecodeSimpleType(ty, sample, trailer) ==
    /\ call = NoCall
    /\ call' = [op |-> "decode_simple_type", ty |-> ty, sample |-> sample,
                data |-> to_le_bytes(sample, ty.size) \o trailer]
    /\ outcome' = decode_simple_type(to_le_bytes(sample, ty.size) \o trailer, ty.name)
    /\ UNCHANGED <<idl_parser, prefix_config, alloc_limit, target_pointer_width, clock, databases, history>>

\* IdlParser::calculate_discriminator(event_name).
CalculateDiscriminator(event_name) ==
    /\ call = NoCall
    /\ call' = [op |-> "calculate_discriminator", event_name |-> event_name]
    /\ outcome' = discriminator_of(event_name)
    /\ UNCHANGED <<idl_parser, prefix_config, alloc_limit, target_pointer_width, clock, databases, history>>

\* The caller takes the result; a panic or an abort has ended the process.
Return ==
    /\ call # NoCall
    /\ IF call.op \in {"decode_event", "decode_simple_type"}
       THEN IF outcome.ok THEN TRUE ELSE outcome.err.kind \notin {"panic", "abort"}
       ELSE TRUE
    /\ call' = NoCall
    /\ outcome' = NoCall
    /\ UNCHANGED <<idl_parser, prefix_config, alloc_limit, target_pointer_width, clock, databases, history>>

Next ==
    \/ \E idl \in Idls : LoadIdl(idl)
    \/ \E program_id \in ProgramIds, prefix \in Prefixes : AddMapping(program_id, prefix)
    \/ Tick
    \/ \E program_id \in ProgramIds, data \in Blobs : DecodeEvent(program_id, data)
    \/ \E ty \in IntegerTypes, trailer \in Trailers :
          \E sample \in Samples(ty) : DecodeSimpleType(ty, sample, trailer)
    \/ \E event_name \in HashedNames : CalculateDiscriminator(event_name)
    \/ Return

Spec == Init /\ [][Next]_vars

(***************************************************************************)
(* The storage interface as a state machine: one database of each backend, *)
(* freshly migrated; callers insert decoded events.                        *)
(***************************************************************************)

Backends == {"sqlite", "postgres", "mongodb"}

\* The 5 random bytes of the MongoDB driver's ObjectIds in this process.
ObjectIdRandom == <<222, 173, 190, 239, 1>>

\* Transaction signatures (base58 text).
\* "5VERv8NMvzbJMEkV8xnrLkEaWRtSz9CosKDYjCJjBRnbJLgp8uirBgmQpjKhoR4tjF3ZpRzrFmBV6UjKdiSZkQUW"
\* and the same with a last character of "X"
SignatureA == <<53, 86, 69, 82, 118, 56, 78, 77, 118, 122, 98, 74, 77, 69, 107, 86, 56, 120, 110, 114, 76, 107, 69, 97, 87, 82, 116, 83, 122, 57, 67, 111, 115, 75, 68, 89, 106, 67, 74, 106, 66, 82, 110, 98, 74, 76, 103, 112, 56, 117, 105, 114, 66, 103, 109, 81, 112, 106, 75, 104, 111, 82, 52, 116, 106, 70, 51, 90, 112, 82, 122, 114, 70, 109, 66, 86, 54, 85, 106, 75, 100, 105, 83, 90, 107, 81, 85, 87>>
SignatureB == <<53, 86, 69, 82, 118, 56, 78, 77, 118, 122, 98, 74, 77, 69, 107, 86, 56, 120, 110, 114, 76, 107, 69, 97, 87, 82, 116, 83, 122, 57, 67, 111, 115, 75, 68, 89, 106, 67, 74, 106, 66, 82, 110, 98, 74, 76, 103, 112, 56, 117, 105, 114, 66, 103, 109, 81, 112, 106, 75, 104, 111, 82, 52, 116, 106, 70, 51, 90, 112, 82, 122, 114, 70, 109, 66, 86, 54, 85, 106, 75, 100, 105, 83, 90, 107, 81, 85, 88>>
Signatures == {SignatureA, SignatureB}

\* Decoded events (DecodedEvent) as decode_event returns them for IdlInline.
StoredEvents ==
    {[event_name |-> DefaultPrefix \o <<95>> \o EventName.Transfer,
      data |-> JObject(<<97, 109, 111, 117, 110, 116>> :> JString(<<49>>)),
      discriminator |-> KnownDiscriminator[EventName.Transfer]],
     [event_name |-> DefaultPrefix \o <<95>> \o EventName.Mint,
      data |-> JObject((<<97>> :> JNumber(FromNat(42))) @@ (<<98>> :> JString(<<55>>))),
      discriminator |-> KnownDiscriminator[EventName.Mint]]}

\* The position of an event among the events of its transaction. The code
\* keeps no such index: it is recorded beside each call only.
LogIndexes == {0, 1}

\* How many inserts a behaviour has.
MaxInserts == 3

\* Database::new + run_migrations for every backend; no decoder is in use.
InitStore ==
    /\ idl_parser = <<>>
    /\ prefix_config = [default_prefix |-> DefaultPrefix, program_mappings |-> <<>>]
    /\ alloc_limit = 2^30
    /\ target_pointer_width = 64
    /\ clock = Instants[1]
    /\ call = NoCall
    /\ outcome = NoCall
    /\ databases = [b \in Backends |-> new_backend(b, ObjectIdRandom)]
    /\ history = <<>>

\* Database::insert_event(event, raw) on the database of backend b, for the
\* event at position log_index of its transaction.
InsertEvent(b, event, signature, log_index) ==
    LET raw == [slot |-> 7,
                signature |-> signature,
                program_id |-> PubkeyA,
                log |-> ProgramDataPrefix,
                timestamp |-> clock]
        done(r) ==
            /\ databases' = [databases EXCEPT ![b] = r.db]
            /\ history' = Append(history, [op |-> "insert_event",
                                           db |-> b,
                                           signature |-> signature,
                                           log_index |-> log_index,
                                           event_name |-> event.event_name,
                                           result |-> r.result,
                                           rows_before |-> databases[b].rows,
                                           rows |-> r.db.rows])
    IN  /\ Len(history) < MaxInserts
        /\ done(insert_event(databases[b], event, raw))
        /\ UNCHANGED <<idl_parser, prefix_config, alloc_limit, target_pointer_width, clock, call, outcome>>

\* Time passes between two calls.
TickStore ==
    /\ clock = Instants[1]
    /\ clock' = Instants[2]
    /\ UNCHANGED <<idl_parser, prefix_config, alloc_limit, target_pointer_width, call, outcome, databases, history>>

NextStore ==
    \/ \E b \in Backends, event \in StoredEvents, signature \in Signatures,
          log_index \in LogIndexes : InsertEvent(b, event, signature, log_index)
    \/ TickStore

SpecStore == InitStore /\ [][NextStore]_vars

(***************************************************************************)
(* The live handler as a state machine: the indexer has loaded its IDLs    *)
(* and opened its database; log messages arrive and are processed one at a *)
(* time, and callers ask whether a signature is stored.                    *)
(***************************************************************************)

\* The standard base64 alphabet.
Base64Alphabet == <<65, 66, 67, 68, 69, 70, 71, 72, 73, 74, 75, 76, 77, 78, 79, 80, 81, 82, 83, 84, 85, 86, 87, 88, 89, 90, 97, 98, 99, 100, 101, 102, 103, 104, 105, 106, 107, 108, 109, 110, 111, 112, 113, 114, 115, 116, 117, 118, 119, 120, 121, 122, 48, 49, 50, 51, 52, 53, 54, 55, 56, 57, 43, 47>>

RECURSIVE base64_encode(_)
\* The padded standard base64 of bytes, as the runtime writes it into a
\* "Program data: " line.
base64_encode(bs) ==
    LET c(v) == Base64Alphabet[v + 1]
    IN  IF Len(bs) = 0 THEN <<>>
        ELSE IF Len(bs) = 1
        THEN <<c(bs[1] \div 4), c((bs[1] % 4) * 16), 61, 61>>
        ELSE IF Len(bs) = 2
        THEN <<c(bs[1] \div 4), c((bs[1] % 4) * 16 + bs[2] \div 16), c((bs[2] % 16) * 4), 61>>
        ELSE <<c(bs[1] \div 4), c((bs[1] % 4) * 16 + bs[2] \div 16),
               c((bs[2] % 16) * 4 + bs[3] \div 64), c(bs[3] % 64)>>
             \o base64_encode(SliceFrom(bs, 3))

\* The log line of an event: "Program data: " and the base64 of its blob.
DataLine(blob) == ProgramDataPrefix \o base64_encode(blob)

\* Log lines: a Transfer of amount 1, a Mint of a = 42 and b = 7, a Transfer
\* whose payload is too short, a frame of an unknown discriminator, a frame
\* of three bytes, and a line that is no frame.
TransferLine == DataLine(KnownDiscriminator[EventName.Transfer] \o <<1, 0, 0, 0, 0, 0, 0, 0>>)
MintLine == DataLine(KnownDiscriminator[EventName.Mint] \o <<42, 0, 0, 0, 7, 0, 0, 0, 0, 0, 0, 0>>)
ShortLine == DataLine(KnownDiscriminator[EventName.Transfer] \o <<1, 2, 3>>)
UnknownLine == DataLine(UnknownDiscriminator \o <<1, 2, 3>>)
TinyLine == DataLine(<<42, 100, 253>>)
EmptyLine == DataLine(<<>>)
InvokeLine == <<80, 114, 111, 103, 114, 97, 109, 32, 52, 119, 66, 113, 112, 90, 77, 57, 120, 97, 83, 104, 101, 90, 122, 74, 83, 77, 97, 119, 85, 75, 75, 119, 104, 100, 112, 67, 104, 75, 98, 90, 53, 101, 117, 53, 107, 121, 52, 86, 105, 103, 119, 32, 105, 110, 118, 111, 107, 101, 32, 91, 49, 93>>

\* The first program invokes the second one, which returns, and returns.
InnerInvokeLine == <<80, 114, 111, 103, 114, 97, 109, 32>> \o Address[PubkeyB] \o <<32, 105, 110, 118, 111, 107, 101, 32, 91, 50, 93>>
InnerSuccessLine == <<80, 114, 111, 103, 114, 97, 109, 32>> \o Address[PubkeyB] \o <<32, 115, 117, 99, 99, 101, 115, 115>>
SuccessLine == <<80, 114, 111, 103, 114, 97, 109, 32>> \o Address[PubkeyA] \o <<32, 115, 117, 99, 99, 101, 115, 115>>

\* Log messages (RpcLogsResponse): one event; two events of one transaction;
\* a failed transaction; an event under the signature of the first message
\* with other logs; a transaction without a known event; a transaction with
\* frames of under 8 bytes and a frame of an unknown discriminator before an
\* event.
Messages ==
    {[signature |-> SignatureA, err |-> None, logs |-> <<InvokeLine, TransferLine>>],
     [signature |-> SignatureB, err |-> None, logs |-> <<InvokeLine, MintLine, TransferLine>>],
     [signature |-> SignatureB, err |-> Some("InstructionError"),
      logs |-> <<InvokeLine, TransferLine>>],
     [signature |-> SignatureA, err |-> None, logs |-> <<ShortLine>>],
     [signature |-> SignatureA, err |-> None, logs |-> <<InvokeLine, UnknownLine>>],
     [signature |-> SignatureB, err |-> None, logs |-> <<TinyLine, EmptyLine, UnknownLine, MintLine>>],
     [signature |-> SignatureA, err |-> None,
      logs |-> <<InvokeLine, InnerInvokeLine, TransferLine, InnerSuccessLine, SuccessLine>>]}

\* The programs the indexer is started with (--programs), in order.
LivePrograms == <<PubkeyA, PubkeyB>>

\* How many messages a behaviour processes.
MaxMessages == 2

\* run_indexer before the subscription: the database of the URL's backend is
\* open and migrated, the IDLs of the IDL directory are loaded.
InitLive ==
    /\ idl_parser = (IdlInline.address :> IdlInline) @@ (IdlOther.address :> IdlOther)
    /\ prefix_config = [default_prefix |-> DefaultPrefix, program_mappings |-> <<>>]
    /\ \E machine \in Machines :
          /\ alloc_limit = machine.alloc_limit
          /\ target_pointer_width = machine.target_pointer_width
    /\ clock = Instants[1]
    /\ call = NoCall
    /\ outcome = NoCall
    /\ \E b \in Backends : databases = (b :> new_backend(b, ObjectIdRandom))
    /\ history = <<>>

\* process_logs_message(message, program_ids, event_decoder, db), called by
\* the processing task for each message it receives.
ProcessLogsMessage(b, message) ==
    LET done(r) ==
            /\ databases' = [databases EXCEPT ![b] = r.db]
            /\ history' = Append(history, [op |-> "process_logs_message",
                                           db |-> b,
                                           message |-> message,
                                           result |-> r.result,
                                           logged |-> r.logged,
                                           rows_before |-> databases[b].rows,
                                           rows |-> r.db.rows])
    IN  /\ call = NoCall
        /\ Len(history) < MaxMessages
        /\ done(process_logs_message(message, LivePrograms, databases[b]))
        /\ UNCHANGED <<idl_parser, prefix_config, alloc_limit, target_pointer_width, clock, call, outcome>>

\* Database::event_exists(signature).
EventExists(b, signature) ==
    /\ call = NoCall
    /\ call' = [op |-> "event_exists", db |-> b, signature |-> signature]
    /\ outcome' = event_exists(databases[b], signature)
    /\ UNCHANGED <<idl_parser, prefix_config, alloc_limit, target_pointer_width, clock, databases, history>>

\* The caller takes the answer.
ReturnLive ==
    /\ call # NoCall
    /\ call' = NoCall
    /\ outcome' = NoCall
    /\ UNCHANGED <<idl_parser, prefix_config, alloc_limit, target_pointer_width, clock, databases, history>>

\* Time passes between two messages.
TickLive ==
    /\ clock = Instants[1]
    /\ call = NoCall
    /\ clock' = Instants[2]
    /\ UNCHANGED <<idl_parser, prefix_config, alloc_limit, target_pointer_width, call, outcome, databases, history>>

NextLive ==
    \/ \E b \in DOMAIN databases, message \in Messages : ProcessLogsMessage(b, message)
    \/ \E b \in DOMAIN databases, signature \in Signatures : EventExists(b, signature)
    \/ ReturnLive
    \/ TickLive

SpecLive == InitLive /\ [][NextLive]_vars

(***************************************************************************)
(* Properties of the storage interface (SpecStore).                        *)
(***************************************************************************)

\* The inserts of a behaviour so far, by position.
Inserts == {i \in DOMAIN history : history[i].op = "insert_event"}

\* Two inserts of the event with the same (signature, log_index, event_name).
SameEvent(i, j) ==
    /\ history[i].signature = history[j].signature
    /\ history[i].log_index = history[j].log_index
    /\ history[i].event_name = history[j].event_name

\* The rows of a table that hold the event of insert i.
RowsOfEvent(rows, i) ==
    {k \in 1..Len(rows) : /\ rows[k].signature = history[i].signature
                          /\ rows[k].event_name = history[i].event_name}

\* C1: on one backend, inserting an event with the same (signature, log_index,
\* event_name) a second time returns the same event id as the first insert and
\* leaves exactly one row for the event.
C1_SecondInsertReturnsSameId ==
    \A i, j \in Inserts :
        (i < j /\ history[i].db = history[j].db /\ SameEvent(i, j) /\ history[i].result.ok)
            => /\ history[j].result = history[i].result
               /\ Cardinality(RowsOfEvent(history[j].rows, j)) = 1

\* C2: an insert whose event is already stored completes successfully and
\* leaves the store unchanged; a conflict is never an error.
C2_ConflictIsNoError ==
    \A j \in Inserts :
        (\E i \in Inserts : /\ i < j
                            /\ history[i].db = history[j].db
                            /\ SameEvent(i, j)
                            /\ history[i].result.ok)
            => /\ history[j].result.ok
               /\ history[j].rows = history[j].rows_before

\* C3: the signature is no uniqueness key: after two distinct events of one
\* transaction (same signature, another log index or event name) were inserted
\* into a backend, it holds two rows with that signature.
C3_TwoEventsOfOneTransaction ==
    \A i, j \in Inserts :
        (/\ i < j
         /\ history[i].db = history[j].db
         /\ history[i].signature = history[j].signature
         /\ ~SameEvent(i, j))
            => Cardinality(rows_with_signature(databases[history[j].db],
                                               history[j].signature)) >= 2

\* C7: the id insert returns is a function of (signature, log_index,
\* event_name) only: the same triple gets the same id whatever the store
\* already holds, however many inserts preceded it and whichever the backend.
C7_IdDependsOnTripleOnly ==
    \A i, j \in Inserts :
        (SameEvent(i, j) /\ history[i].result.ok /\ history[j].result.ok)
            => history[i].result.value = history[j].result.value

(***************************************************************************)
(* Properties of the live handler (SpecLive).                              *)
(***************************************************************************)

\* The messages processed so far, by position.
Processed == {i \in DOMAIN history : history[i].op = "process_logs_message"}

\* The log lines of a message that decode as an event of a configured program.
EventLines(message) ==
    {i \in 1..Len(message.logs) :
        \E p \in 1..Len(LivePrograms) :
            LET found(event_data) ==
                    /\ event_data.some
                    /\ decode_event(Address[LivePrograms[p]], message.signature,
                                    event_data.v).ok
            IN  found(extract_event_from_log_line(message.logs[i]))}

\* A message of a successful transaction that carries an event.
CarriesEvent(message) == ~message.err.some /\ EventLines(message) # {}

\* The rows of a table with a signature, in order.
RowsWithSignature(rows, signature) ==
    SelectSeq(rows, LAMBDA row : row.signature = signature)

Declared(program_id, discriminator) ==
    IF program_id \in DOMAIN idl_parser
    THEN {i \in 1..Len(idl_parser[program_id].events) :
             discriminator_of(idl_parser[program_id].events[i].name) = discriminator}
    ELSE {}

\* A decode_event call on a blob of at least 8 bytes that starts with the
\* discriminator of an event declared for the program.
ValidDiscriminatorCall ==
    /\ call.op = "decode_event"
    /\ Len(call.data) >= 8
    /\ Declared(call.program_id, SubSeq(call.data, 1, 8)) # {}

\* C5: for a blob of at least 8 bytes whose first 8 bytes are the discriminator
\* of an event declared for the program, decode_event returns a record, fully
\* decoded or fallback, and never an error, whatever the payload is.
C5_ValidDiscriminatorGivesRecord ==
    ValidDiscriminatorCall => outcome.ok

\* The declaration decode_event matched for the call, and the result of
\* decoding the payload against its fields.
MatchedEvent == find_event_by_discriminator(call.program_id, SubSeq(call.data, 1, 8)).v
PayloadDecode ==
    decode(SliceFrom(call.data, 8),
           IF MatchedEvent.fields.some THEN MatchedEvent.fields.v ELSE <<>>)

\* The name a record carries for a declared name: "<tag>_<name>" for a program
\* with a configured tag, the declared name otherwise.
RecordName(program_id, name) ==
    IF program_id \in DOMAIN prefix_config.program_mappings
    THEN prefix_config.program_mappings[program_id] \o <<95>> \o name
    ELSE name

\* C6: when decoding the payload against the matched declaration fails, the
\* record has the declared name as event_name, and as data an object with
\* hex = the payload in uppercase hex, length = the payload's byte count,
\* decode_error = the error message, event_name = the declared name and
\* field_count = the number of declared fields.
C6_FallbackRecord ==
    LET holds(event, decoded, payload) ==
            (~decoded.ok /\ decoded.err.kind = "EventDecode")
                => /\ outcome.ok
                   /\ outcome.value.event_name = RecordName(call.program_id, event.name)
                   /\ outcome.value.data.t = "object"
                   /\ {Key.hex, Key.length, Key.decode_error, Key.event_name,
                       Key.field_count} \subseteq DOMAIN outcome.value.data.v
                   /\ outcome.value.data.v[Key.hex] = JString(hex_encode_upper(payload))
                   /\ outcome.value.data.v[Key.length] = JNumber(FromNat(Len(payload)))
                   /\ outcome.value.data.v[Key.decode_error]
                      = JString(error_to_string(decoded.err))
                   /\ outcome.value.data.v[Key.event_name] = JString(event.name)
                   /\ outcome.value.data.v[Key.field_count]
                      = JNumber(FromNat(IF event.fields.some THEN Len(event.fields.v)
                                        ELSE 0))
    IN  ValidDiscriminatorCall
            => holds(MatchedEvent, PayloadDecode, SliceFrom(call.data, 8))

\* SHA-256 over "event:" and each name, evaluated once.
EventDigest == [name \in HashedNames |-> Sha256(<<101, 118, 101, 110, 116, 58>> \o name)]

\* The discriminator of PaymentRecord (test_payment_record_fields_from_idl).
PaymentRecordDiscriminator == <<42, 100, 253, 124, 170, 186, 231, 186>>

\* C8: calculate_discriminator(name) is the first 8 bytes of SHA-256 over the
\* bytes of "event:" followed by the name.
C8_DiscriminatorIsHashPrefix ==
    call.op = "calculate_discriminator"
        => /\ outcome = [i \in 1..8 |-> EventDigest[call.event_name][i]]
           /\ call.event_name = EventName.PaymentRecord
                => outcome = PaymentRecordDiscriminator

\* C8 happens: the discriminator of a name that fills a second SHA-256 block
\* was calculated, and that of PaymentRecord.
C8_Witness ==
    /\ call.op = "calculate_discriminator"
    /\ \/ call.event_name = EventName.Long /\ Len(outcome) = 8
       \/ call.event_name = EventName.PaymentRecord /\ outcome = PaymentRecordDiscriminator

\* A decode_simple_type call on the encoding of a value of a signed or of an
\* unsigned integer type.
IntegerCall(signed) ==
    /\ call.op = "decode_simple_type"
    /\ call.ty.signed = signed

\* The decoded value of the call is the value v written in the call: the
\* JSON number v for a width up to 32 bits, the decimal string of v beyond;
\* and the field took width/8 bytes.
DecodesToSample ==
    /\ outcome.ok
    /\ outcome.n = call.ty.size
    /\ IF call.ty.size <= 4
       THEN outcome.value.t = "number" /\ json_to_string(outcome.value) = call.sample
       ELSE outcome.value = JString(call.sample)

\* C9: decoding the little-endian encoding of a value v of u8, u16 or u32
\* yields the JSON number v, of u64 or u128 the decimal string of v, and the
\* field consumes exactly width/8 bytes.
C9_UnsignedRoundTrip ==
    IntegerCall(FALSE) => DecodesToSample

\* C9 happens: u64::MAX was decoded from 8 bytes that another byte follows,
\* and so was a u32.
C9_Witness ==
    /\ IntegerCall(FALSE)
    /\ Len(call.data) = call.ty.size + 1
    /\ \/ /\ call.ty.name = TypeName.u64
          /\ call.data = <<255, 255, 255, 255, 255, 255, 255, 255, 171>>
          /\ outcome = Ok(JString(call.sample), 8)
       \/ /\ call.ty.name = TypeName.u32
          /\ call.data = <<4, 3, 2, 1, 171>>
          /\ outcome.ok /\ outcome.n = 4

\* C10: decoding the two's-complement little-endian encoding of a value v of
\* i8, i16 or i32, negative ones included, yields the JSON number v, of i64 or
\* i128 the decimal string of v; no in-range signed value fails to decode.
C10_SignedRoundTrip ==
    IntegerCall(TRUE) => DecodesToSample

(***************************************************************************)
(* The field decoder on its own: a caller hands a payload and a field list *)
(* to IdlEventDecoder::decode and takes the result.                        *)
(***************************************************************************)

\* The two surface forms of a fixed array type.
ArrayString(inner, n) == <<91>> \o inner \o <<59, 32>> \o n \o <<93>>
ArrayObject(inner, n) ==
    JObject(Key.array :> JArray(<<JString(inner), JNumber(FromNat(DigitsValue(n, 0)))>>))
\* A reference to a defined type: {"defined": {"name": name}}.
DefinedType(name) == JObject(Key.defined :> JObject(Key.name :> JString(name)))

\* The element types and lengths of the fixed arrays that are decoded.
ArrayElements == {TypeName.u8, TypeName.u16, TypeName.bool, <<91, 117, 56, 59, 32, 50, 93>>, <<102, 51, 50>>}
ArrayLengths == { <<48>>, <<50>>, <<52>> }

\* A field of a type given as JSON.
FieldOf(name, field_type) == [name |-> name, field_type |-> field_type]

\* Field lists (IdlField vectors): fixed-width integers, length-prefixed
\* types, an option, a public key, arrays in both forms, a reference to the
\* defined type Inner, an unsupported type, and no field at all.
FieldLists ==
    {<<>>,
     <<Field(<<97, 109, 111, 117, 110, 116>>, TypeName.u64)>>,
     <<Field(<<97>>, TypeName.u32), Field(<<98>>, TypeName.u64)>>,
     <<Field(<<102, 108, 97, 103>>, TypeName.bool), Field(<<110>>, TypeName.u16)>>,
     <<Field(<<109, 101, 109, 111>>, TypeName.string)>>,
     <<Field(<<114, 97, 119>>, TypeName.bytes)>>,
     <<Field(<<100, 97, 116, 97>>, <<118, 101, 99, 60, 117, 56, 62>>)>>,
     <<Field(<<118, 97, 108, 117, 101>>, <<111, 112, 116, 105, 111, 110, 60, 117, 54, 52, 62>>)>>,
     <<Field(<<111, 119, 110, 101, 114>>, TypeName.publicKey)>>,
     <<Field(<<120>>, <<102, 51, 50>>)>>,
     <<Field(<<105, 100>>, TypeName.u8), FieldOf(<<105, 110, 110, 101, 114>>, DefinedType(<<73, 110, 110, 101, 114>>))>>}
    \cup {<<Field(<<109>>, ArrayString(inner, n))>> : inner \in ArrayElements, n \in ArrayLengths}
    \cup {<<FieldOf(<<109>>, ArrayObject(inner, n))>> : inner \in ArrayElements, n \in ArrayLengths}

\* The payloads handed to decode.
DecodePayloads ==
    Payloads \cup {<<1, 2, 3, 4>>, <<1, 2, 3, 4, 5>>, <<7, 1, 0, 0, 0>>,
                   <<1, 42, 0, 0, 0, 0, 0, 0, 0>>, <<0>>,
                   [i \in 1..32 |-> i], [i \in 1..33 |-> 0]}

\* No registry is needed to decode a field list.
InitDecode ==
    /\ idl_parser = <<>>
    /\ prefix_config = [default_prefix |-> DefaultPrefix, program_mappings |-> <<>>]
    /\ \E machine \in Machines :
          /\ alloc_limit = machine.alloc_limit
          /\ target_pointer_width = machine.target_pointer_width
    /\ clock = Instants[1]
    /\ call = NoCall
    /\ outcome = NoCall
    /\ databases = <<>>
    /\ history = <<>>

\* IdlEventDecoder::decode(data, fields).
Decode(data, fields) ==
    /\ call = NoCall
    /\ call' = [op |-> "decode", data |-> data, fields |-> fields]
    /\ outcome' = decode(data, fields)
    /\ UNCHANGED <<idl_parser, prefix_config, alloc_limit, target_pointer_width, clock, databases, history>>

\* The caller takes the result; a panic or an abort has ended the process.
ReturnDecode ==
    /\ call # NoCall
    /\ IF outcome.ok THEN TRUE ELSE outcome.err.kind \notin {"panic", "abort"}
    /\ call' = NoCall
    /\ outcome' = NoCall
    /\ UNCHANGED <<idl_parser, prefix_config, alloc_limit, target_pointer_width, clock, databases, history>>

NextDecode ==
    \/ \E data \in DecodePayloads, fields \in FieldLists : Decode(data, fields)
    \/ ReturnDecode

SpecDecode == InitDecode /\ [][NextDecode]_vars

(***************************************************************************)
(* Properties of the field decoder (SpecDecode).                           *)
(***************************************************************************)

\* The width in bytes of the types whose encoding has one width.
FixedWidth(field_type) ==
    IF field_type = JString(TypeName.bool) THEN 1
    ELSE IF field_type = JString(TypeName.u16) THEN 2
    ELSE IF field_type = JString(TypeName.u32) THEN 4
    ELSE IF field_type = JString(TypeName.u64) THEN 8
    ELSE IF field_type = JString(TypeName.publicKey) THEN 32
    ELSE -1

RECURSIVE SumWidths(_)
\* The bytes that the fields of a list of fixed-width types take together.
SumWidths(fields) ==
    IF fields = <<>> THEN 0 ELSE FixedWidth(fields[1].field_type) + SumWidths(Tail(fields))

AllFixed(fields) == \A i \in 1..Len(fields) : FixedWidth(fields[i].field_type) > 0

\* "Data length mismatch: decoded <offset> bytes, but data is <len> bytes"
LengthMismatch(offset, len) ==
    Err(<<68, 97, 116, 97, 32, 108, 101, 110, 103, 116, 104, 32, 109, 105, 115, 109, 97, 116, 99, 104, 58, 32, 100, 101, 99, 111, 100, 101, 100, 32>> \o to_string(FromNat(offset))
        \o <<32, 98, 121, 116, 101, 115, 44, 32, 98, 117, 116, 32, 100, 97, 116, 97, 32, 105, 115, 32>> \o to_string(FromNat(len)) \o <<32, 98, 121, 116, 101, 115>>)

\* C11: decode returns a value only when the bytes its fields consumed are
\* the whole input; when the fields fit and bytes are left over after the
\* last one, it returns the length-mismatch error.
C11_ConsumesWholePayload ==
    call.op = "decode" =>
        /\ outcome.ok => outcome.n = Len(call.data)
        /\ AllFixed(call.fields) =>
              /\ outcome.ok <=> SumWidths(call.fields) = Len(call.data)
              /\ SumWidths(call.fields) < Len(call.data)
                    => outcome = LengthMismatch(SumWidths(call.fields), Len(call.data))

\* C11 happens: a u64 field was decoded from nine bytes and refused with the
\* length-mismatch error.
C11_Witness ==
    /\ call.op = "decode"
    /\ Len(call.fields) = 1
    /\ call.fields[1].field_type = JString(TypeName.u64)
    /\ call.data = <<1, 0, 0, 0, 0, 0, 0, 0, 0>>
    /\ outcome = LengthMismatch(8, 9)

\* An error that says the input ended before the field did.
UnexpectedEnd(r) ==
    /\ ~r.ok
    /\ r.err.kind = "EventDecode"
    /\ \/ StartsWith(r.err.msg, <<78, 111, 116, 32, 101, 110, 111, 117, 103, 104, 32, 100, 97, 116, 97>>)
       \/ StartsWith(r.err.msg, <<85, 110, 101, 120, 112, 101, 99, 116, 101, 100, 32, 101, 110, 100, 32, 111, 102, 32, 100, 97, 116, 97>>)

\* A field list of one length-prefixed field (string, bytes, vec<u8>) and a
\* payload whose length prefix is larger than the bytes that follow it.
PrefixBeyondInput ==
    /\ Len(call.fields) = 1
    /\ call.fields[1].field_type \in {JString(TypeName.string), JString(TypeName.bytes),
                                      JString(<<118, 101, 99, 60, 117, 56, 62>>)}
    /\ Len(call.data) >= 4
    /\ u32_from_le_bytes(call.data) > Len(call.data) - 4

\* A field list of one fixed array of four u8, in either form, and a payload
\* of fewer than four bytes.
ArrayBeyondInput ==
    /\ Len(call.fields) = 1
    /\ call.fields[1].field_type \in {JString(ArrayString(TypeName.u8, <<52>>)),
                                      ArrayObject(TypeName.u8, <<52>>)}
    /\ Len(call.data) < 4

\* C12: for every payload and field list decode returns a value or an error
\* and never panics or aborts; a length prefix or a fixed array that reaches
\* beyond the input gives an unexpected-end error.
C12_NeverPanics ==
    call.op = "decode" =>
        /\ outcome.ok \/ outcome.err.kind = "EventDecode"
        /\ (PrefixBeyondInput \/ ArrayBeyondInput) => UnexpectedEnd(outcome)

\* The field list of one fixed array field in each surface form.
AsString(inner, n) == <<FieldOf(<<109>>, JString(ArrayString(inner, n)))>>
AsObject(inner, n) == <<FieldOf(<<109>>, ArrayObject(inner, n))>>

\* C13: a field declared as the string "[T; N]" and the same field declared
\* as the object {"array": [T, N]} decode every payload to the same result:
\* the same array from the same bytes, or an error in both.
C13_ArrayFormsAgree ==
    call.op = "decode" =>
        \A inner \in ArrayElements, n \in ArrayLengths :
            LET same(other) ==
                    /\ outcome.ok = other.ok
                    /\ outcome.ok => outcome = other
            IN  /\ call.fields = AsString(inner, n)
                      => same(decode(call.data, AsObject(inner, n)))
                /\ call.fields = AsObject(inner, n)
                      => same(decode(call.data, AsString(inner, n)))

\* The program's type table holds the struct Inner with one field x: u32
\* (decode is not given the table).
\* The field list with a reference to Inner, and the same list with the
\* struct's fields written out in its place.
WithDefined == <<Field(<<105, 100>>, TypeName.u8), FieldOf(<<105, 110, 110, 101, 114>>, DefinedType(<<73, 110, 110, 101, 114>>))>>
Inlined == <<Field(<<105, 100>>, TypeName.u8), Field(<<120>>, TypeName.u32)>>

\* C14: a field that refers to a struct of the type table is decoded by
\* decoding the struct's fields at the cursor and yields a nested object keyed
\* by the struct's field names; the reference is no decode error.
C14_DefinedTypeInline ==
    (call.op = "decode" /\ call.fields = WithDefined) =>
        LET same(flat) ==
                /\ outcome.ok = flat.ok
                /\ outcome.ok =>
                      outcome.value =
                          JObject((<<105, 100>> :> flat.value.v[<<105, 100>>])
                                  @@ (<<105, 110, 110, 101, 114>> :> JObject(<<120>> :> flat.value.v[<<120>>])))
        IN  same(decode(call.data, Inlined))

(***************************************************************************)
(* The schema registry on its own: IDL documents are loaded and a caller   *)
(* looks events up by discriminator.                                       *)
(***************************************************************************)

\* The field lists of the structs in the type tables.
MintFields == <<Field(<<116, 111>>, TypeName.i64)>>
TransferFields == <<Field(<<97, 109, 111, 117, 110, 116>>, TypeName.u64)>>

\* An entry of "types" that is an enum, not a struct.
EnumDef(name) ==
    JObject((Key.name :> JString(name))
            @@ (Key.type :> JObject(Key.kind :> JString(<<101, 110, 117, 109>>))))

\* IDLs of the second program: one that declares Transfer twice, and one
\* whose type table holds an enum and then a struct under the event's name.
IdlDuplicate ==
    [address |-> Address[PubkeyB],
     events |-> <<EventDef(EventName.Transfer, Some(<<Field(<<97>>, TypeName.u8)>>)),
                  EventDef(EventName.Transfer, Some(<<Field(<<98>>, TypeName.u16)>>))>>,
     types |-> None]
IdlEnum ==
    [address |-> Address[PubkeyB],
     events |-> <<EventDef(EventName.Mint, None), EventDef(EventName.Transfer, None)>>,
     types |-> Some(<<EnumDef(EventName.Mint), TypeDef(EventName.Mint, MintFields),
                      EnumDef(EventName.Transfer)>>)]
RegistryIdls == Idls \cup {IdlDuplicate, IdlEnum}

\* The discriminators that are looked up.
Discriminators == {KnownDiscriminator[name] : name \in EventNames} \cup {UnknownDiscriminator}

\* IdlParser::find_event_by_discriminator(program_id, discriminator).
FindEvent(program_id, discriminator) ==
    /\ call = NoCall
    /\ call' = [op |-> "find_event_by_discriminator", program_id |-> program_id,
                discriminator |-> discriminator]
    /\ outcome' = find_event_by_discriminator(program_id, discriminator)
    /\ UNCHANGED <<idl_parser, prefix_config, alloc_limit, target_pointer_width, clock, databases, history>>

\* The caller takes the answer.
ReturnRegistry ==
    /\ call # NoCall
    /\ call' = NoCall
    /\ outcome' = NoCall
    /\ UNCHANGED <<idl_parser, prefix_config, alloc_limit, target_pointer_width, clock, databases, history>>

NextRegistry ==
    \/ \E idl \in RegistryIdls : LoadIdl(idl)
    \/ \E program_id \in ProgramIds, discriminator \in Discriminators :
          FindEvent(program_id, discriminator)
    \/ ReturnRegistry

SpecRegistry == Init /\ [][NextRegistry]_vars

(***************************************************************************)
(* Properties of the registry (SpecRegistry).                              *)
(***************************************************************************)

\* The positions of the declarations of the called program whose name hashes
\* to the called discriminator.
Hits ==
    IF call.program_id \in DOMAIN idl_parser
    THEN {i \in 1..Len(idl_parser[call.program_id].events) :
            discriminator_of(idl_parser[call.program_id].events[i].name)
                = call.discriminator}
    ELSE {}

\* The first of them.
FirstHit ==
    idl_parser[call.program_id].events[CHOOSE i \in Hits : \A j \in Hits : i <= j]

\* The field lists that the program's type table declares for a struct of the
\* given name.
StructFields(name) ==
    IF idl_parser[call.program_id].types.some
    THEN {fields \in {MintFields, TransferFields} :
            \E i \in DOMAIN idl_parser[call.program_id].types.v :
                idl_parser[call.program_id].types.v[i] = TypeDef(name, fields)}
    ELSE {}

\* C15: find_event_by_discriminator returns none when the program has no
\* loaded schema or no declaration's name has the discriminator; otherwise the
\* first such declaration, with its inline fields when it has them, else with
\* the fields of the struct of its name in the type table, else without fields.
C15_FindEventByDiscriminator ==
    call.op = "find_event_by_discriminator" =>
        IF Hits = {} THEN outcome = None
        ELSE /\ outcome.some
             /\ outcome.v.name = FirstHit.name
             /\ IF FirstHit.fields.some THEN outcome.v = FirstHit
                ELSE IF StructFields(FirstHit.name) # {}
                     THEN outcome.v.fields.some
                          /\ outcome.v.fields.v \in StructFields(FirstHit.name)
                ELSE outcome.v = FirstHit /\ ~outcome.v.fields.some

\* C15 happens: an event that declares no fields was found with the fields of
\* the struct of its name, which follows an enum of that name in the table.
C15_Witness ==
    /\ call.op = "find_event_by_discriminator"
    /\ call.program_id = Address[PubkeyB]
    /\ call.program_id \in DOMAIN idl_parser
    /\ idl_parser[call.program_id] = IdlEnum
    /\ call.discriminator = KnownDiscriminator[EventName.Mint]
    /\ outcome.some
    /\ outcome.v.fields = Some(MintFields)

(***************************************************************************)
(* Properties of the live handler: frames that are no event (SpecLive).    *)
(***************************************************************************)

\* The blob of line i of a message, if the line is a "Program data: " frame.
FrameOf(message, i) == extract_event_from_log_line(message.logs[i])

\* The rows that processing entry k of the history added.
RowsAdded(k) ==
    SubSeq(history[k].rows, Len(history[k].rows_before) + 1, Len(history[k].rows))

\* Line i of the message is a frame of at least 8 bytes whose first 8 bytes
\* are the discriminator of no event declared for a configured program.
UnknownFrame(message, i) ==
    /\ FrameOf(message, i).some
    /\ Len(FrameOf(message, i).v) >= 8
    /\ \A p \in 1..Len(LivePrograms) :
          Declared(Address[LivePrograms[p]], SubSeq(FrameOf(message, i).v, 1, 8)) = {}

\* The error decode_event gives for a discriminator that matches no event.
IsMismatch(r) ==
    /\ ~r.ok
    /\ r.err.kind = "EventDecode"
    /\ StartsWith(r.err.msg, <<78, 111, 32, 101, 118, 101, 110, 116, 32, 102, 111, 117, 110, 100, 32, 119, 105, 116, 104, 32, 100, 105, 115, 99, 114, 105, 109, 105, 110, 97, 116, 111, 114, 58, 32>>)

C17_EventNameTag ==
    (ValidDiscriminatorCall /\ outcome.ok) =>
        /\ call.program_id \in DOMAIN prefix_config.program_mappings
              => outcome.value.event_name
                 = prefix_config.program_mappings[call.program_id] \o <<95>> \o MatchedEvent.name
        /\ call.program_id \notin DOMAIN prefix_config.program_mappings
              => outcome.value.event_name = MatchedEvent.name
        /\ EndsWith(outcome.value.event_name, MatchedEvent.name)

\* Line i of the message is a frame whose blob has fewer than 8 bytes.
ShortFrame(message, i) ==
    /\ FrameOf(message, i).some
    /\ Len(FrameOf(message, i).v) < 8

\* "Event data too short (< 8 bytes)"
TooShort == Err(<<69, 118, 101, 110, 116, 32, 100, 97, 116, 97, 32, 116, 111, 111, 32, 115, 104, 111, 114, 116, 32, 40, 60, 32, 56, 32, 98, 121, 116, 101, 115, 41>>)

MaxRetries == 65

RetryCounts == {0, 1, 2, 5, 33, MaxRetries}

\* base_delay and max_delay of retry_with_backoff.
DelayPairs ==
    { [base_delay |-> 10, max_delay |-> 100],
      [base_delay |-> 1000, max_delay |-> 30000],
      [base_delay |-> 200, max_delay |-> 100] }

\* What a failing operation's error displays as.
ErrorTexts ==
    { <<72, 84, 84, 80, 32, 52, 50, 57, 32, 84, 111, 111, 32, 77, 97, 110, 121, 32, 82, 101, 113, 117, 101, 115, 116, 115>>, <<82, 97, 116, 101, 32, 76, 105, 109, 105, 116, 32, 101, 120, 99, 101, 101, 100, 101, 100>>, <<99, 111, 110, 110, 101, 99, 116, 105, 111, 110, 32, 114, 101, 115, 101, 116>> }

\* str::to_lowercase on ASCII text.
to_lowercase(s) == [i \in 1..Len(s) |-> IF s[i] \in 65..90 THEN s[i] + 32 ELSE s[i]]

\* std::cmp::min.
cmp_min(a, b) == IF a <= b THEN a ELSE b

\* min(base * 2^exponent, limit) where the product fits its type: once the
\* doubled value has reached limit, doubling it further changes nothing.
RECURSIVE scaled_min(_, _, _)
scaled_min(base, exponent, limit) ==
    IF exponent = 0 \/ base = 0 \/ base >= limit THEN cmp_min(base, limit)
    ELSE scaled_min(2 * base, exponent - 1, limit)

\* min(base_delay * 2u32.pow(attempt), max_delay).  2u32.pow(attempt)
\* overflows from attempt 32 on: a build with overflow checks panics, one
\* without them gets 0.  The Duration product itself stays far below
\* Duration::MAX for these base delays.
backoff_delay(base_delay, max_delay, attempt, overflow_checks) ==
    IF attempt < 32 THEN OkValue(scaled_min(base_delay, attempt, max_delay))
    ELSE IF overflow_checks THEN Panic(<<97, 116, 116, 101, 109, 112, 116, 32, 116, 111, 32, 109, 117, 108, 116, 105, 112, 108, 121, 32, 119, 105, 116, 104, 32, 111, 118, 101, 114, 102, 108, 111, 119>>)
    ELSE OkValue(cmp_min(base_delay * 0, max_delay))

is_rate_limit(error_str) ==
    \/ Contains(error_str, <<114, 97, 116, 101, 32, 108, 105, 109, 105, 116>>)
    \/ Contains(error_str, <<52, 50, 57>>)
    \/ Contains(error_str, <<116, 111, 111, 32, 109, 97, 110, 121, 32, 114, 101, 113, 117, 101, 115, 116, 115>>)

\* The delay of retry_with_rate_limit, capped at 60 s.  100 * 2u64.pow(attempt)
\* overflows u64 from attempt 58 on and 2u64.pow(attempt) from attempt 64
\* on: a build with overflow checks panics; without them the product is
\* (100 mod 2^(64 - attempt)) * 2^attempt, which is 0 or above 2^58 ms.
rate_limit_delay(error_str, attempt, overflow_checks) ==
    IF is_rate_limit(error_str)
    THEN OkValue(cmp_min((attempt + 1) * 5 * 1000, 60 * 1000))
    ELSE IF attempt < 58 THEN OkValue(scaled_min(100, attempt, 60 * 1000))
    ELSE IF overflow_checks THEN Panic(<<97, 116, 116, 101, 109, 112, 116, 32, 116, 111, 32, 109, 117, 108, 116, 105, 112, 108, 121, 32, 119, 105, 116, 104, 32, 111, 118, 101, 114, 102, 108, 111, 119>>)
    ELSE IF attempt < 64 /\ 100 % (2 ^ (64 - attempt)) # 0 THEN OkValue(60 * 1000)
    ELSE OkValue(0)

\* The delay before the next attempt, for the wrapper in flight.
retry_delay(frame, error_text) ==
    IF frame.op = "retry_with_backoff"
    THEN backoff_delay(frame.base_delay, frame.max_delay, frame.attempt,
                       frame.overflow_checks)
    ELSE rate_limit_delay(to_lowercase(error_text), frame.attempt,
                          frame.overflow_checks)

\* last_error = Some(e), a mutant of it first.
record_first_error(last_error, e) == IF last_error.some THEN last_error ELSE Some(e)

record_error(last_error, e) == Some(e)

\* Whether `for attempt in 0..=max_retries` yields this attempt, a mutant
\* of it first.
range_yields_one_more(attempt, max_retries) == attempt <= max_retries + 1

range_yields(attempt, max_retries) == attempt <= max_retries

\* An error of the operation: which invocation raised it, and its text.
OperationError(n, text) == [kind |-> "operation", n |-> n, msg |-> text]

\* The loop from the end of one iteration on: the next attempt if the
\* range yields one, else Err(last_error.unwrap()).
next_iteration(frame) ==
    IF range_yields(frame.attempt + 1, frame.max_retries)
    THEN [frame |-> [frame EXCEPT !.attempt = @ + 1, !.at = "operation"],
          outcome |-> NoCall]
    ELSE [frame |-> [frame EXCEPT !.at = "returned"],
          outcome |-> IF frame.last_error.some
                      THEN [ok |-> FALSE, err |-> frame.last_error.v]
                      ELSE Panic(<<99, 97, 108, 108, 101, 100, 32, 96, 79, 112, 116, 105, 111, 110, 58, 58, 117, 110, 119, 114, 97, 112, 40, 41, 96, 32, 111, 110, 32, 97, 32, 96, 78, 111, 110, 101, 96, 32, 118, 97, 108, 117, 101>>)]

\* The Err(e) arm: record the error, then sleep if a retry is left.
on_error(frame, e) ==
    LET recorded == [frame EXCEPT !.last_error = record_error(@, e)]
        delay == retry_delay(frame, e.msg)
    IN  IF frame.attempt < frame.max_retries
        THEN IF delay.ok
             THEN [frame |-> [recorded EXCEPT !.at = "sleep", !.delay = delay.value],
                   outcome |-> NoCall]
             ELSE [frame |-> [recorded EXCEPT !.at = "panicked"], outcome |-> delay]
        ELSE next_iteration(recorded)

RetryFrame(op, max_retries, delays, overflow_checks) ==
    [op |-> op, max_retries |-> max_retries, base_delay |-> delays.base_delay,
     max_delay |-> delays.max_delay, overflow_checks |-> overflow_checks,
     attempt |-> 0, last_error |-> None, invocations |-> 0, at |-> "operation",
     delay |-> 0]

RetryOps == {"retry_with_backoff", "retry_with_rate_limit"}

InFlight == call.op \in RetryOps

\* retry_with_backoff(operation, max_retries, base_delay, max_delay) is called.
RetryWithBackoff(max_retries, delays, overflow_checks) ==
    /\ call = NoCall
    /\ call' = RetryFrame("retry_with_backoff", max_retries, delays, overflow_checks)
    /\ outcome' = NoCall
    /\ UNCHANGED <<idl_parser, prefix_config, alloc_limit, target_pointer_width, clock, databases, history>>

\* retry_with_rate_limit(operation, max_retries) is called.
RetryWithRateLimit(max_retries, overflow_checks) ==
    /\ call = NoCall
    /\ call' = RetryFrame("retry_with_rate_limit", max_retries,
                          [base_delay |-> 100, max_delay |-> 60 * 1000], overflow_checks)
    /\ outcome' = NoCall
    /\ UNCHANGED <<idl_parser, prefix_config, alloc_limit, target_pointer_width, clock, databases, history>>

\* operation().await resolves to Ok: the wrapper returns it.
OperationOk ==
    /\ InFlight
    /\ call.at = "operation"
    /\ call' = [call EXCEPT !.invocations = @ + 1, !.at = "returned"]
    /\ outcome' = OkValue([n |-> call.invocations + 1])
    /\ UNCHANGED <<idl_parser, prefix_config, alloc_limit, target_pointer_width, clock, databases, history>>

\* operation().await resolves to Err(e).
OperationErr(text) ==
    /\ InFlight
    /\ call.at = "operation"
    /\ LET next(r) == call' = r.frame /\ outcome' = r.outcome
       IN  next(on_error([call EXCEPT !.invocations = @ + 1],
                         OperationError(call.invocations + 1, text)))
    /\ UNCHANGED <<idl_parser, prefix_config, alloc_limit, target_pointer_width, clock, databases, history>>

\* sleep(delay).await is over: the loop goes on.
Sleep ==
    /\ InFlight
    /\ call.at = "sleep"
    /\ LET next(r) == call' = r.frame /\ outcome' = r.outcome
       IN  next(next_iteration(call))
    /\ UNCHANGED <<idl_parser, prefix_config, alloc_limit, target_pointer_width, clock, databases, history>>

\* The caller takes the result; a panic has ended the task.
ReturnRetry ==
    /\ InFlight
    /\ call.at = "returned"
    /\ call' = NoCall
    /\ outcome' = NoCall
    /\ UNCHANGED <<idl_parser, prefix_config, alloc_limit, target_pointer_width, clock, databases, history>>

NextRetry ==
    \/ \E max_retries \in RetryCounts, delays \in DelayPairs, overflow_checks \in BOOLEAN :
          RetryWithBackoff(max_retries, delays, overflow_checks)
    \/ \E max_retries \in RetryCounts, overflow_checks \in BOOLEAN :
          RetryWithRateLimit(max_retries, overflow_checks)
    \/ OperationOk
    \/ \E text \in ErrorTexts : OperationErr(text)
    \/ Sleep
    \/ ReturnRetry

SpecRetry == InitDecode /\ [][NextRetry]_vars

(***************************************************************************)
(* Properties of the retry wrappers.                                       *)
(***************************************************************************)

Succeeded == InFlight /\ call.at = "returned" /\ outcome.ok

\* The invocations before the successful one all failed: the error kept is
\* the one of the invocation just before it.
EarlierAllFailed ==
    IF call.invocations = 1 THEN ~call.last_error.some
    ELSE call.last_error.some /\ call.last_error.v.n = call.invocations - 1

CountsAttempts ==
    InFlight =>
        /\ call.invocations <= call.max_retries + 1
        /\ call.at = "operation" => call.invocations = call.attempt
        /\ Succeeded =>
              /\ outcome.value.n = call.invocations
              /\ call.invocations = call.attempt + 1
              /\ EarlierAllFailed

\* C19: with max_retries = R both wrappers invoke the operation at most
\* R + 1 times; a success on the k-th invocation, the first to succeed,
\* is what the wrapper returns after exactly k invocations, and the
\* operation is not invoked again once it has succeeded.
C19_AtMostRPlusOneAndFirstSuccess ==
    /\ [](CountsAttempts)
    /\ [][Succeeded => (call' = NoCall /\ outcome' = NoCall)]_vars

\* The third invocation is the first to succeed, with five retries allowed.
C19_Witness ==
    /\ Succeeded
    /\ call.max_retries = 5
    /\ call.invocations = 3
    /\ outcome.value.n = 3

AllAttemptsFailed ==
    /\ InFlight
    /\ call.invocations = call.max_retries + 1
    /\ call.last_error.some
    /\ call.last_error.v.n = call.max_retries + 1

ReturnedError == InFlight /\ call.at = "returned" /\ ~outcome.ok

\* C20: once all R + 1 invocations have failed the wrapper has returned,
\* and what it returns is the error of invocation R + 1; it returns an
\* error in no other case.  R = 0 included.
C20_ReturnsLastError ==
    /\ AllAttemptsFailed =>
          /\ call.at = "returned"
          /\ outcome = [ok |-> FALSE, err |-> call.last_error.v]
    /\ ReturnedError =>
          /\ AllAttemptsFailed
          /\ outcome.err.kind = "operation"
          /\ outcome.err.n = call.max_retries + 1

\* Six failures with five retries: the sixth error comes back.
C20_Witness ==
    /\ ReturnedError
    /\ call.max_retries = 5
    /\ call.invocations = 6
    /\ outcome.err.n = 6

Sleeping(op) == InFlight /\ call.op = op /\ call.at = "sleep"

Panicked(op) == InFlight /\ call.op = op /\ call.at = "panicked"

\* C21: in retry_with_backoff every failed attempt a < R is followed by a
\* sleep of min(base * 2^a, cap), so at most cap, also where 2^a is
\* beyond 32 bits; the wrapper never panics instead of sleeping.
C21_BackoffDelay ==
    /\ ~Panicked("retry_with_backoff")
    /\ Sleeping("retry_with_backoff") =>
          /\ call.delay = scaled_min(call.base_delay, call.attempt, call.max_delay)
          /\ call.delay <= call.max_delay

\* The error kept names a rate limit, whatever its letter case.
RateLimited == is_rate_limit(to_lowercase(call.last_error.v.msg))

\* C22: in retry_with_rate_limit the sleep after failed attempt a is
\* min((a + 1) * 5 s, 60 s) for a rate-limit error and
\* min(100 ms * 2^a, 60 s) for any other; the wrapper never panics
\* instead of sleeping.
C22_RateLimitDelay ==
    /\ ~Panicked("retry_with_rate_limit")
    /\ Sleeping("retry_with_rate_limit") =>
          call.delay = IF RateLimited
                       THEN cmp_min((call.attempt + 1) * 5000, 60000)
                       ELSE scaled_min(100, call.attempt, 60000)

(***************************************************************************)
(* The live subscriber (soltrace-live/src/main.rs): run_websocket_loop     *)
(* around websocket_handler, whose reader hands notifications over a       *)
(* bounded channel to one processing task.                                 *)
(*                                                                         *)
(* The subscriber in flight is the record in call.  Durations are whole    *)
(* seconds; the reconnect delays tried are far below the 2^54 s at which   *)
(* reconnect_delay * 2u64.pow(10) would overflow u64.                      *)
(***************************************************************************)

\* mpsc::channel(100).
ChannelCapacity == 100

\* How many failures of the handler a behaviour goes through.
MaxFailures == 12

\* How many notifications the upstream delivers on one connection.
MaxNotifications == 2

\* A Transfer whose vec<u8> payload holds two bytes, and one whose length
\* prefix is 0xFFFFFFFF.
VecLine == DataLine(KnownDiscriminator[EventName.Transfer] \o <<2, 0, 0, 0, 7, 9>>)
HugeVecLine == DataLine(KnownDiscriminator[EventName.Transfer] \o <<255, 255, 255, 255>>)

\* Notifications (RpcLogsResponse): an event, an event whose vec length
\* prefix is beyond any payload, and a failed transaction.
VecMessage == [signature |-> SignatureA, err |-> None, logs |-> <<InvokeLine, VecLine>>]
HugeVecMessage == [signature |-> SignatureB, err |-> None, logs |-> <<HugeVecLine>>]
FailedMessage ==
    [signature |-> SignatureB, err |-> Some("InstructionError"), logs |-> <<InvokeLine>>]

Notifications == {VecMessage, HugeVecMessage, FailedMessage}

\* What an upstream delivers: events, or failed transactions only.
Upstreams == [events |-> {VecMessage, HugeVecMessage}, quiet |-> {FailedMessage}]

\* --commitment values.
Commitments == { <<70, 105, 110, 97, 108, 105, 122, 101, 100>>, <<114, 101, 99, 101, 110, 116>> }

\* parse_commitment: whether the level is one of the three known ones.
parse_commitment(commitment) ==
    to_lowercase(commitment) \in { <<112, 114, 111, 99, 101, 115, 115, 101, 100>>, <<99, 111, 110, 102, 105, 114, 109, 101, 100>>, <<102, 105, 110, 97, 108, 105, 122, 101, 100>> }

\* anyhow::Error with its message.
Anyhow(msg) == [ok |-> FALSE, err |-> [kind |-> "anyhow", msg |-> msg]]

\* The delay before reconnect number reconnect_count.
reconnect_backoff(reconnect_delay, reconnect_count) ==
    IF reconnect_count > 10 THEN 60 * 15
    ELSE reconnect_delay * 2 ^ cmp_min(reconnect_count, 10)

\* The exit test at the top of the loop, a mutant of it first.
reconnects_exhausted_never(max_reconnects, reconnect_count) == FALSE

reconnects_exhausted(max_reconnects, reconnect_count) ==
    max_reconnects > 0 /\ reconnect_count >= max_reconnects

\* A mutant of handler_failed: the counter starts again at every failure.
handler_failed_counts_from_one(frame, e) ==
    [frame EXCEPT !.reconnect_count = 1,
                  !.delay = reconnect_backoff(frame.reconnect_delay, 1),
                  !.last_error = Some(e.err),
                  !.at = "sleep"]

\* The Err(e) arm of run_websocket_loop: count the failure, then sleep.
handler_failed(frame, e) ==
    [frame EXCEPT !.reconnect_count = @ + 1,
                  !.delay = reconnect_backoff(frame.reconnect_delay, frame.reconnect_count + 1),
                  !.last_error = Some(e.err),
                  !.at = "sleep"]

\* The main loop of websocket_handler is over: drop(tx), then wait for
\* the processing task.
reader_done(frame, ending) ==
    [frame EXCEPT !.at = "cleanup", !.tx = FALSE, !.in_hand = None, !.ending = ending]

\* tx.send(value).await: an error once the receiver is gone, the value
\* queued when there is room, else the reader waits with it in hand.
send(frame, value) ==
    IF frame.processor # "running" THEN reader_done(frame, "send_failed")
    ELSE IF Len(frame.queue) < ChannelCapacity
    THEN [frame EXCEPT !.queue = Append(@, value), !.in_hand = None, !.at = "next"]
    ELSE [frame EXCEPT !.in_hand = Some(value), !.at = "send"]

LoopFrame(reconnect_delay, max_reconnects, commitment, upstream, stream_limit) ==
    [op |-> "run_websocket_loop", reconnect_delay |-> reconnect_delay,
     max_reconnects |-> max_reconnects, commitment |-> commitment,
     upstream |-> upstream, stream_limit |-> stream_limit,
     reconnect_count |-> 0, delay |-> 0, last_error |-> None, at |-> "loop",
     queue |-> <<>>, in_hand |-> None, tx |-> FALSE, processor |-> "none",
     received |-> 0, idle |-> FALSE, ending |-> "none"]

Looping == call.op = "run_websocket_loop"

\* run_indexer before the subscription: the database is open, the IDLs of
\* the IDL directory are loaded.
InitSubscriber ==
    /\ idl_parser = (IdlVec.address :> IdlVec) @@ (IdlOther.address :> IdlOther)
    /\ prefix_config = [default_prefix |-> DefaultPrefix, program_mappings |-> <<>>]
    /\ \E machine \in Machines :
          /\ alloc_limit = machine.alloc_limit
          /\ target_pointer_width = machine.target_pointer_width
    /\ clock = Instants[1]
    /\ call = NoCall
    /\ outcome = NoCall
    /\ databases = ("sqlite" :> new_backend("sqlite", ObjectIdRandom))
    /\ history = <<>>

\* run_websocket_loop(..) is called.
RunWebsocketLoop(reconnect_delay, max_reconnects, commitment, upstream, stream_limit) ==
    /\ call = NoCall
    /\ history = <<>>
    /\ call' = LoopFrame(reconnect_delay, max_reconnects, commitment, upstream, stream_limit)
    /\ outcome' = NoCall
    /\ UNCHANGED <<idl_parser, prefix_config, alloc_limit, target_pointer_width, clock, databases, history>>

\* The top of the loop: the exit test, then websocket_handler up to its
\* first await (parse_commitment, PubsubClient::new).
LoopTop ==
    /\ Looping
    /\ call.at = "loop"
    /\ IF reconnects_exhausted(call.max_reconnects, call.reconnect_count)
       THEN /\ call' = [call EXCEPT !.at = "returned"]
            /\ outcome' = Anyhow(<<77, 97, 120, 32, 114, 101, 99, 111, 110, 110, 101, 99, 116, 105, 111, 110, 115, 32, 101, 120, 99, 101, 101, 100, 101, 100>>)
       ELSE IF ~parse_commitment(call.commitment)
       THEN /\ call.reconnect_count < MaxFailures
            /\ call' = handler_failed(call, Anyhow(<<73, 110, 118, 97, 108, 105, 100, 32, 99, 111, 109, 109, 105, 116, 109, 101, 110, 116, 32, 108, 101, 118, 101, 108>>))
            /\ outcome' = outcome
       ELSE /\ call' = [call EXCEPT !.at = "connect"]
            /\ outcome' = outcome
    /\ UNCHANGED <<idl_parser, prefix_config, alloc_limit, target_pointer_width, clock, databases, history>>

\* PubsubClient::new(ws_url).await resolves.
Connect(connected) ==
    /\ Looping
    /\ call.at = "connect"
    /\ connected \/ call.reconnect_count < MaxFailures
    /\ call' = IF connected THEN [call EXCEPT !.at = "subscribe"]
               ELSE handler_failed(call, Anyhow(<<70, 97, 105, 108, 101, 100, 32, 116, 111, 32, 99, 111, 110, 110, 101, 99, 116, 32, 116, 111, 32, 87, 101, 98, 83, 111, 99, 107, 101, 116>>))
    /\ UNCHANGED <<idl_parser, prefix_config, alloc_limit, target_pointer_width, clock, outcome, databases, history>>

\* logs_subscribe(..).await resolves; on success the channel is created
\* and the processing task spawned.
Subscribe(subscribed) ==
    /\ Looping
    /\ call.at = "subscribe"
    /\ subscribed \/ call.reconnect_count < MaxFailures
    /\ call' = IF subscribed
               THEN [call EXCEPT !.at = "next", !.queue = <<>>, !.tx = TRUE,
                                 !.processor = "running", !.received = 0,
                                 !.idle = FALSE, !.ending = "none"]
               ELSE handler_failed(call, Anyhow(<<70, 97, 105, 108, 101, 100, 32, 116, 111, 32, 115, 117, 98, 115, 99, 114, 105, 98, 101, 32, 116, 111, 32, 108, 111, 103, 115>>))
    /\ UNCHANGED <<idl_parser, prefix_config, alloc_limit, target_pointer_width, clock, outcome, databases, history>>

\* notifications.next() yields a notification: the reader sends it.
NextNotification(message) ==
    /\ Looping
    /\ call.at = "next"
    /\ call.received < call.stream_limit
    /\ message \in Upstreams[call.upstream]
    /\ call' = send([call EXCEPT !.received = @ + 1, !.idle = FALSE],
                    [seq |-> call.received + 1, message |-> message])
    /\ UNCHANGED <<idl_parser, prefix_config, alloc_limit, target_pointer_width, clock, outcome, databases, history>>

\* The pending tx.send resolves: room has appeared, or the receiver is gone.
SendResolves ==
    /\ Looping
    /\ call.at = "send"
    /\ call.processor # "running" \/ Len(call.queue) < ChannelCapacity
    /\ call' = send(call, call.in_hand.v)
    /\ UNCHANGED <<idl_parser, prefix_config, alloc_limit, target_pointer_width, clock, outcome, databases, history>>

\* notifications.next() yields None: the upstream ended the stream.
StreamEnds ==
    /\ Looping
    /\ call.at = "next"
    /\ call' = reader_done(call, "stream_ended")
    /\ UNCHANGED <<idl_parser, prefix_config, alloc_limit, target_pointer_width, clock, outcome, databases, history>>

\* 60 seconds pass without a notification: logged, the loop goes on.
Timeout ==
    /\ Looping
    /\ call.at = "next"
    /\ ~call.idle
    /\ call' = [call EXCEPT !.idle = TRUE]
    /\ UNCHANGED <<idl_parser, prefix_config, alloc_limit, target_pointer_width, clock, outcome, databases, history>>

\* The processing task: rx.recv() yields the oldest notification and
\* process_logs_message handles it.  A panic ends the task and drops the
\* receiver with what is queued; an abort ends the process.
Process(b) ==
    LET head == Head(call.queue)
        done(r) ==
            /\ databases' = [databases EXCEPT ![b] = r.db]
            /\ history' = Append(history, [op |-> "process_logs_message",
                                           db |-> b,
                                           seq |-> head.seq,
                                           message |-> head.message,
                                           result |-> r.result,
                                           logged |-> r.logged,
                                           rows_before |-> databases[b].rows,
                                           rows |-> r.db.rows])
            /\ call' = IF r.result.ok THEN [call EXCEPT !.queue = Tail(@)]
                       ELSE IF r.result.err.kind = "abort"
                       THEN [call EXCEPT !.at = "aborted", !.processor = "aborted",
                                         !.queue = Tail(@)]
                       ELSE [call EXCEPT !.processor = "panicked", !.queue = <<>>]
    IN  /\ Looping
        /\ call.processor = "running"
        /\ call.queue # <<>>
        /\ done(process_logs_message(head.message, LivePrograms, databases[b]))
        /\ UNCHANGED <<idl_parser, prefix_config, alloc_limit, target_pointer_width, clock, outcome>>

\* rx.recv() yields None: every sender is dropped and the queue is empty.
ProcessorEnds ==
    /\ Looping
    /\ call.processor = "running"
    /\ call.queue = <<>>
    /\ ~call.tx
    /\ call' = [call EXCEPT !.processor = "finished"]
    /\ UNCHANGED <<idl_parser, prefix_config, alloc_limit, target_pointer_width, clock, outcome, databases, history>>

\* processor_handle.await and unsubscribe().await are over: the handler
\* returns the Ok(()) of its main loop, and run_websocket_loop breaks.
Cleanup ==
    /\ Looping
    /\ call.at = "cleanup"
    /\ call.processor \in {"finished", "panicked"}
    /\ call' = [call EXCEPT !.at = "returned"]
    /\ outcome' = OkValue(<<>>)
    /\ UNCHANGED <<idl_parser, prefix_config, alloc_limit, target_pointer_width, clock, databases, history>>

\* sleep(delay).await is over.
Reconnect ==
    /\ Looping
    /\ call.at = "sleep"
    /\ call' = [call EXCEPT !.at = "loop"]
    /\ UNCHANGED <<idl_parser, prefix_config, alloc_limit, target_pointer_width, clock, outcome, databases, history>>

ReconnectDelays == {1, 5}

MaxReconnects == {0, 1, 3}

NextReconnect ==
    \/ \E reconnect_delay \in ReconnectDelays, max_reconnects \in MaxReconnects,
          commitment \in Commitments :
          RunWebsocketLoop(reconnect_delay, max_reconnects, commitment,
                           "events", MaxNotifications)
    \/ LoopTop
    \/ \E connected \in BOOLEAN : Connect(connected)
    \/ \E subscribed \in BOOLEAN : Subscribe(subscribed)
    \/ \E message \in Notifications : NextNotification(message)
    \/ StreamEnds
    \/ Timeout
    \/ \E b \in DOMAIN databases : Process(b)
    \/ ProcessorEnds
    \/ Cleanup
    \/ Reconnect

SpecReconnect == InitSubscriber /\ [][NextReconnect]_vars

\* One connection to a healthy upstream that delivers more notifications
\* than the channel holds, with the default reconnect settings.
NextSubscriber ==
    \/ RunWebsocketLoop(5, 0, <<99, 111, 110, 102, 105, 114, 109, 101, 100>>, "quiet",
                        ChannelCapacity + MaxNotifications)
    \/ LoopTop
    \/ Connect(TRUE)
    \/ Subscribe(TRUE)
    \/ \E message \in Notifications : NextNotification(message)
    \/ SendResolves
    \/ StreamEnds
    \/ Timeout
    \/ \E b \in DOMAIN databases : Process(b)
    \/ ProcessorEnds
    \/ Cleanup

SpecSubscriber == InitSubscriber /\ [][NextSubscriber]_vars

(***************************************************************************)
(* Properties of the live subscriber.                                      *)
(***************************************************************************)

Reconnecting == Looping /\ call.at = "sleep"

\* C23: after every failure of the subscription lifecycle the subscriber
\* sleeps min(base_delay * 2^min(attempt, 10), 15 minutes), attempt being
\* the counter after its increment: never more than 15 minutes.
C23_ReconnectDelayCapped ==
    Reconnecting =>
        /\ call.delay = cmp_min(call.reconnect_delay * 2 ^ cmp_min(call.reconnect_count, 10),
                                15 * 60)
        /\ call.delay <= 15 * 60

Exhausted ==
    /\ Looping
    /\ call.at = "returned"
    /\ ~outcome.ok
    /\ outcome.err.msg = <<77, 97, 120, 32, 114, 101, 99, 111, 110, 110, 101, 99, 116, 105, 111, 110, 115, 32, 101, 120, 99, 101, 101, 100, 101, 100>>

\* C24: the subscriber exits with the reconnect-exhaustion error only with
\* max_reconnects > 0 and the counter above max_reconnects, and while the
\* counter is at most max_reconnects the top of the loop goes on to
\* another connection attempt.
C24_ExhaustionExactlyAboveMax ==
    [][/\ Exhausted' =>
             /\ call'.max_reconnects > 0
             /\ call'.reconnect_count > call'.max_reconnects
       /\ (Looping /\ call.at = "loop" /\ call.reconnect_count <= call.max_reconnects
                   /\ parse_commitment(call.commitment)) =>
             call'.at = "connect"]_vars

ReturnedOk == Looping /\ call.at = "returned" /\ outcome.ok

\* C25: the reconnect loop returns without error only after the upstream
\* ended the stream; a notification the processor no longer accepts is a
\* failure, which is counted and followed by a retry or by the
\* reconnect-exhaustion error.
C25_OkOnlyOnNormalClose ==
    ReturnedOk => call.ending = "stream_ended"

\* The arrival numbers of the notifications the processor has received.
Handed == [i \in 1..Len(history) |-> history[i].seq]

\* The arrival numbers still with the reader or in the queue.
Pending ==
    [i \in 1..Len(call.queue) |-> call.queue[i].seq]
        \o (IF call.in_hand.some THEN <<call.in_hand.v.seq>> ELSE <<>>)

\* C26: the queue never holds more than 100 notifications, and no
\* notification read from the upstream is discarded: those read so far are
\* the ones the processor has received followed by the ones queued or in
\* the reader's hand, each exactly once and in arrival order.
C26_BoundedQueueNothingLost ==
    Looping =>
        /\ Len(call.queue) <= ChannelCapacity
        /\ (call.processor # "none") =>
              Handed \o Pending = [i \in 1..call.received |-> i]

\* The queue is full and the reader waits with the next notification.
ReaderBlocked ==
    /\ Looping
    /\ call.at = "send"
    /\ Len(call.queue) = ChannelCapacity
    /\ call.in_hand.some
    /\ call.received = ChannelCapacity + 1

\* C30: a notification whose processing fails leaves the processing task
\* running: no notification ends the task or the process.
C30_ProcessorSurvives ==
    Looping => call.processor \notin {"panicked", "aborted"}

(***************************************************************************)
(* The walker (soltrace-backfill/src/main.rs) and process_transaction       *)
(* (utils.rs).                                                             *)
(***************************************************************************)

\* program_id_str.parse::<Pubkey>() for the addresses in use.
pubkey_from_str(program_id_str) ==
    IF \E p \in Pubkeys : Address[p] = program_id_str
    THEN Some(CHOOSE p \in Pubkeys : Address[p] = program_id_str)
    ELSE None

\* The loop of process_transaction over the log lines from line i on:
\* [db, result]; the result is Ok(processed_signatures), or the panic or
\* abort that ended the task.
RECURSIVE process_transaction_loop(_, _, _, _, _, _)
process_transaction_loop(transaction, signature, program_id_str, db, i, events_count) ==
    LET logs == transaction.meta.v.log_messages.v
        parsed == pubkey_from_str(program_id_str)
        timestamp == IF transaction.block_time.some
                     THEN [secs |-> transaction.block_time.v, nanos |-> 0]
                     ELSE clock
        raw_event == [slot |-> transaction.slot,
                      signature |-> signature,
                      program_id |-> IF parsed.some THEN parsed.v ELSE [k \in 1..32 |-> 0],
                      log |-> logs[i],
                      timestamp |-> timestamp]
        next(db_next, count) ==
            process_transaction_loop(transaction, signature, program_id_str, db_next,
                                     i + 1, count)
        store(stored) ==
            next(stored.db, IF stored.result.ok THEN events_count + 1 ELSE events_count)
        decoded_as(decoded) ==
            IF decoded.ok THEN store(insert_event(db, decoded.value, raw_event))
            ELSE IF decoded.err.kind \in {"panic", "abort"}
            THEN [db |-> db, result |-> decoded]
            ELSE next(db, events_count)
        extracted(event_data) ==
            IF event_data.some
            THEN decoded_as(decode_event(program_id_str, signature, event_data.v))
            ELSE next(db, events_count)
    IN  IF i > Len(logs)
        THEN [db |-> db,
              result |-> OkValue(IF events_count > 0 THEN <<signature>> ELSE <<>>)]
        ELSE extracted(extract_event_from_log(logs[i], program_id_str))

\* process_transaction: a failed transaction is skipped; each line the
\* extractor accepts for the program is decoded and the event inserted.
process_transaction(transaction, program_id_str, db) ==
    LET failed(msg) == [db |-> db, result |-> Anyhow(msg)]
    IN  IF ~transaction.meta.some THEN failed(<<84, 114, 97, 110, 115, 97, 99, 116, 105, 111, 110, 32, 104, 97, 115, 32, 110, 111, 32, 109, 101, 116, 97, 100, 97, 116, 97>>)
        ELSE IF transaction.meta.v.err.some THEN [db |-> db, result |-> OkValue(<<>>)]
        ELSE IF ~transaction.meta.v.log_messages.some
        THEN failed(<<84, 114, 97, 110, 115, 97, 99, 116, 105, 111, 110, 32, 104, 97, 115, 32, 110, 111, 32, 108, 111, 103, 115>>)
        ELSE IF transaction.encoding # "json"
        THEN failed(<<79, 110, 108, 121, 32, 74, 83, 79, 78, 45, 101, 110, 99, 111, 100, 101, 100, 32, 116, 114, 97, 110, 115, 97, 99, 116, 105, 111, 110, 115, 32, 97, 114, 101, 32, 115, 117, 112, 112, 111, 114, 116, 101, 100>>)
        ELSE IF transaction.signatures = <<>>
        THEN failed(<<84, 114, 97, 110, 115, 97, 99, 116, 105, 111, 110, 32, 104, 97, 115, 32, 110, 111, 32, 115, 105, 103, 110, 97, 116, 117, 114, 101>>)
        ELSE process_transaction_loop(transaction, transaction.signatures[1],
                                      program_id_str, db, 1, 0)

\* A third signature.
SignatureC == [SignatureA EXCEPT ![1] = 54]

\* A "Program data: " line whose text holds the address of the first
\* program: the base64 of twelve bytes, then the address and one more
\* character, 33 further bytes of payload.
AddressedLine(blob) == DataLine(blob) \o Address[PubkeyA] \o <<65>>

\* A Transfer whose vec<u8> holds the 33 bytes that follow, and one whose
\* length prefix is 0xFFFFFFFF.
AddressedVecLine == AddressedLine(KnownDiscriminator[EventName.Transfer] \o <<33, 0, 0, 0>>)
AddressedHugeLine == AddressedLine(KnownDiscriminator[EventName.Transfer] \o <<255, 255, 255, 255>>)

\* EncodedConfirmedTransactionWithStatusMeta with these log lines.
Transaction(signature, err, logs) ==
    [slot |-> 7,
     block_time |-> Some(1700000000),
     encoding |-> "json",
     signatures |-> <<signature>>,
     meta |-> Some([err |-> err, log_messages |-> Some(logs)])]

\* The transaction of each signature: an event of the first program, an
\* event whose vec length prefix is beyond any payload, a failed transaction.
Transactions ==
    (SignatureA :> Transaction(SignatureA, None, <<InvokeLine, AddressedVecLine>>))
    @@ (SignatureB :> Transaction(SignatureB, None, <<AddressedHugeLine>>))
    @@ (SignatureC :> Transaction(SignatureC, Some("InstructionError"), <<InvokeLine>>))

\* What get_signatures_for_address_with_config returns for a program.
Listings == {<<>>, <<SignatureA, SignatureB, SignatureC>>, <<SignatureC, SignatureA>>}

\* The positions of the tasks of a chunk: no list is longer.
TaskIndexes == 1..3

\* --programs and --concurrency.
ProgramLists == {<<Address[PubkeyA], Address[PubkeyB]>>, <<Address[PubkeyA], Address[PubkeyA]>>}
Concurrencies == {0, 1, 2}

\* What the account of a program is: owned by a loader, owned by the System
\* Program, or not fetched because every attempt failed.
Accounts == {"program", "system", "unreachable"}

\* The error of the last attempt of a request that never succeeded.
UpstreamError == <<99, 111, 110, 110, 101, 99, 116, 105, 111, 110, 32, 114, 101, 102, 117, 115, 101, 100>>

\* The locals of run_backfill and of its process_signatures_concurrent:
\* listed is the list the upstream returned (signatures in run_backfill),
\* signatures the filtered list handed on (signature_strings).
WalkFrame(programs, concurrency) ==
    [op |-> "run_backfill",
     at |-> "program",
     programs |-> programs,
     concurrency |-> concurrency,
     program |-> 1,
     processed_signatures |-> {},
     total_signatures_fetched |-> 0,
     total_events_processed |-> 0,
     listed |-> <<>>,
     signatures |-> <<>>,
     chunk |-> 0,
     handles |-> <<>>,
     joined |-> 0,
     processed_count |-> 0,
     events_count |-> 0]

Walking == call # NoCall /\ call.op = "run_backfill"

\* The tasks of the window that were spawned and have not finished.
running_tasks == {k \in 1..Len(call.handles) : call.handles[k].at # "finished"}

\* Database::new, load_idls, EventDecoder::new: the IDLs of both programs
\* are loaded.
InitWalker ==
    /\ idl_parser = (IdlVec.address :> IdlVec) @@ (IdlOther.address :> IdlOther)
    /\ prefix_config = [default_prefix |-> DefaultPrefix, program_mappings |-> <<>>]
    /\ \E machine \in Machines :
          /\ alloc_limit = machine.alloc_limit
          /\ target_pointer_width = machine.target_pointer_width
    /\ clock = Instants[1]
    /\ call = NoCall
    /\ outcome = NoCall
    /\ databases = ("sqlite" :> new_backend("sqlite", ObjectIdRandom))
    /\ history = <<>>

\* run_backfill(cli) is called.
RunBackfill(programs, concurrency) ==
    /\ call = NoCall
    /\ outcome = NoCall
    /\ call' = WalkFrame(programs, concurrency)
    /\ UNCHANGED <<idl_parser, prefix_config, alloc_limit, target_pointer_width, clock, outcome, databases, history>>

\* The chunk size of signatures.chunks(concurrency * 2), a mutant of it
\* first.
chunk_size_three_times(concurrency) == concurrency * 3

chunk_size(concurrency) == concurrency * 2

\* The head of the loop over the programs: the account and the signature
\* list are requested under retry_with_rate_limit, the list is filtered by
\* processed_signatures, and process_signatures_concurrent is entered.
WalkProgram(account, listed) ==
    LET program_id_str == call.programs[call.program]
        returns(msg) ==
            /\ call' = [call EXCEPT !.at = "returned"]
            /\ outcome' = Anyhow(msg \o program_id_str \o <<58, 32>> \o UpstreamError)
        signature_strings ==
            SelectSeq(listed.v, LAMBDA sig : sig \notin call.processed_signatures)
    IN  /\ Walking
        /\ call.at = "program"
        /\ call.program <= Len(call.programs)
        /\ IF account = "unreachable" THEN returns(<<70, 97, 105, 108, 101, 100, 32, 116, 111, 32, 102, 101, 116, 99, 104, 32, 97, 99, 99, 111, 117, 110, 116, 32>>)
           ELSE IF account = "system"
           THEN /\ call' = [call EXCEPT !.program = @ + 1]
                /\ UNCHANGED outcome
           ELSE IF ~listed.some THEN returns(<<70, 97, 105, 108, 101, 100, 32, 116, 111, 32, 103, 101, 116, 32, 115, 105, 103, 110, 97, 116, 117, 114, 101, 115, 32, 102, 111, 114, 32>>)
           ELSE IF chunk_size(call.concurrency) = 0
           THEN /\ call' = [call EXCEPT !.at = "panicked",
                                        !.total_signatures_fetched = @ + Len(listed.v),
                                        !.listed = listed.v,
                                        !.signatures = signature_strings]
                /\ outcome' = Panic(<<99, 104, 117, 110, 107, 32, 115, 105, 122, 101, 32, 109, 117, 115, 116, 32, 98, 101, 32, 110, 111, 110, 45, 122, 101, 114, 111>>)
           ELSE /\ call' = [call EXCEPT !.at = "chunk",
                                        !.total_signatures_fetched = @ + Len(listed.v),
                                        !.listed = listed.v,
                                        !.signatures = signature_strings,
                                        !.chunk = 0,
                                        !.handles = <<>>,
                                        !.joined = 0,
                                        !.processed_count = 0,
                                        !.events_count = 0]
                /\ UNCHANGED outcome
        /\ UNCHANGED <<idl_parser, prefix_config, alloc_limit, target_pointer_width, clock, databases, history>>

\* The next chunk of signatures.chunks(concurrency * 2): one task is spawned
\* for each of its signatures.
SpawnChunk ==
    LET size == cmp_min(chunk_size(call.concurrency), Len(call.signatures) - call.chunk)
    IN  /\ Walking
        /\ call.at = "chunk"
        /\ call.chunk < Len(call.signatures)
        /\ call' = [call EXCEPT !.at = "join",
                                !.joined = 0,
                                !.handles = [k \in 1..size |->
                                                [signature |-> call.signatures[call.chunk + k],
                                                 at |-> "spawned",
                                                 seen |-> FALSE,
                                                 stored |-> FALSE,
                                                 result |-> NoCall]]]
        /\ UNCHANGED <<idl_parser, prefix_config, alloc_limit, target_pointer_width, clock, outcome, databases, history>>

\* Task k, process_single_signature: get_transaction_with_config under
\* retry_with_rate_limit returns the transaction or the last error.  The
\* task consults neither the dedup set nor storage: seen and stored record
\* beside the request what they held at that moment.
FetchTransaction(k, fetched) ==
    LET signature == call.handles[k].signature
        seen == signature \in call.processed_signatures
        stored == event_exists(databases["sqlite"], signature).value
    IN  /\ Walking
        /\ call.at = "join"
        /\ k \in 1..Len(call.handles)
        /\ call.handles[k].at = "spawned"
        /\ call' = IF fetched
                   THEN [call EXCEPT !.handles[k].at = "fetched",
                                     !.handles[k].seen = seen,
                                     !.handles[k].stored = stored]
                   ELSE [call EXCEPT !.handles[k].at = "finished",
                                     !.handles[k].seen = seen,
                                     !.handles[k].stored = stored,
                                     !.handles[k].result =
                                         Anyhow(<<70, 97, 105, 108, 101, 100, 32, 116, 111, 32, 102, 101, 116, 99, 104, 32, 116, 114, 97, 110, 115, 97, 99, 116, 105, 111, 110, 58, 32>> \o UpstreamError)]
        /\ UNCHANGED <<idl_parser, prefix_config, alloc_limit, target_pointer_width, clock, outcome, databases, history>>

\* Task k, process_single_signature: process_transaction on the fetched
\* transaction.  A panic ends the task; an abort ends the process.
ProcessTransaction(k) ==
    LET signature == call.handles[k].signature
        done(r) ==
            /\ databases' = [databases EXCEPT !["sqlite"] = r.db]
            /\ IF r.result.ok
               THEN /\ call' = [call EXCEPT !.handles[k].at = "finished",
                                            !.handles[k].result = OkValue(Len(r.result.value))]
                    /\ UNCHANGED outcome
               ELSE IF r.result.err.kind = "abort"
               THEN /\ call' = [call EXCEPT !.at = "aborted",
                                            !.handles[k].at = "finished",
                                            !.handles[k].result = r.result]
                    /\ outcome' = r.result
               ELSE IF r.result.err.kind = "panic"
               THEN /\ call' = [call EXCEPT !.handles[k].at = "finished",
                                            !.handles[k].result = r.result]
                    /\ UNCHANGED outcome
               ELSE /\ call' = [call EXCEPT !.handles[k].at = "finished",
                                            !.handles[k].result =
                                                Anyhow(<<70, 97, 105, 108, 101, 100, 32, 116, 111, 32, 112, 114, 111, 99, 101, 115, 115, 32, 116, 114, 97, 110, 115, 97, 99, 116, 105, 111, 110, 58, 32>>
                                                       \o r.result.err.msg)]
                    /\ UNCHANGED outcome
    IN  /\ Walking
        /\ call.at = "join"
        /\ k \in 1..Len(call.handles)
        /\ call.handles[k].at = "fetched"
        /\ done(process_transaction(Transactions[signature], call.programs[call.program],
                                    databases["sqlite"]))
        /\ UNCHANGED <<idl_parser, prefix_config, alloc_limit, target_pointer_width, clock, history>>

\* The match on handle.await: processed_signatures.insert(signature) in the
\* arm Ok(Ok(event_count)) only.  Two mutants of it first: an insert in every
\* arm, and an insert of every signature of the chunk.
insert_joined_in_every_arm(processed_signatures, handle) ==
    processed_signatures \cup {handle.signature}

insert_joined_whole_chunk(processed_signatures, handle) ==
    IF handle.result.ok
    THEN processed_signatures \cup {call.handles[k].signature : k \in 1..Len(call.handles)}
    ELSE processed_signatures

insert_joined(processed_signatures, handle) ==
    IF handle.result.ok THEN processed_signatures \cup {handle.signature}
    ELSE processed_signatures

\* processed_count += 1 for every handle of the chunk, a mutant of it
\* first: only tasks that returned Ok are counted.
count_joined_successes(processed_count, handle) ==
    IF handle.result.ok THEN processed_count + 1 ELSE processed_count

count_joined(processed_count, handle) == processed_count + 1

\* handle.await of the next task of the chunk, in spawn order; after the
\* last one the chunk is over.
Join ==
    LET handle == call.handles[call.joined + 1]
        counted == [call EXCEPT !.joined = @ + 1,
                                !.processed_count = count_joined(@, handle),
                                !.events_count =
                                    IF handle.result.ok THEN @ + handle.result.value ELSE @,
                                !.processed_signatures = insert_joined(@, handle)]
    IN  /\ Walking
        /\ call.at = "join"
        /\ call.joined < Len(call.handles)
        /\ handle.at = "finished"
        /\ call' = IF counted.joined = Len(call.handles)
                   THEN [counted EXCEPT !.at = "chunk",
                                        !.chunk = @ + Len(call.handles),
                                        !.handles = <<>>,
                                        !.joined = 0]
                   ELSE counted
        /\ UNCHANGED <<idl_parser, prefix_config, alloc_limit, target_pointer_width, clock, outcome, databases, history>>

\* process_signatures_concurrent returns Ok(events_count); after the sleep
\* of batch_delay the loop goes on with the next program.
ProgramComplete ==
    /\ Walking
    /\ call.at = "chunk"
    /\ call.chunk >= Len(call.signatures)
    /\ call' = [call EXCEPT !.at = "program",
                            !.program = @ + 1,
                            !.total_events_processed = @ + call.events_count]
    /\ UNCHANGED <<idl_parser, prefix_config, alloc_limit, target_pointer_width, clock, outcome, databases, history>>

\* The loop over the programs is over: Ok(()).
BackfillComplete ==
    /\ Walking
    /\ call.at = "program"
    /\ call.program > Len(call.programs)
    /\ call' = [call EXCEPT !.at = "returned"]
    /\ outcome' = OkValue(<<>>)
    /\ UNCHANGED <<idl_parser, prefix_config, alloc_limit, target_pointer_width, clock, databases, history>>

\* main returns and the process exits; storage keeps what the run stored,
\* and the walker can be run again.
Exit ==
    /\ Walking
    /\ call.at = "returned"
    /\ call' = NoCall
    /\ outcome' = NoCall
    /\ UNCHANGED <<idl_parser, prefix_config, alloc_limit, target_pointer_width, clock, databases, history>>

NextWalker ==
    \/ \E programs \in ProgramLists, concurrency \in Concurrencies :
          RunBackfill(programs, concurrency)
    \/ \E account \in Accounts, listed \in {None} \cup {Some(l) : l \in Listings} :
          WalkProgram(account, listed)
    \/ SpawnChunk
    \/ \E k \in TaskIndexes, fetched \in BOOLEAN : FetchTransaction(k, fetched)
    \/ \E k \in TaskIndexes : ProcessTransaction(k)
    \/ Join
    \/ ProgramComplete
    \/ BackfillComplete
    \/ Exit

SpecWalker == InitWalker /\ [][NextWalker]_vars

\* C27: with concurrency cap C, at most C per-signature tasks are spawned
\* and not yet finished at any moment.
C27_AtMostCTasksRunning ==
    Walking => Cardinality(running_tasks) <= call.concurrency

\* The tasks whose transaction was requested.
requested_tasks == {k \in 1..Len(call.handles) : call.handles[k].at # "spawned"}

\* C28: a transaction is requested only for a signature that is neither in
\* the dedup set of the run nor present in storage.
C28_FetchesOnlyUnseenUnstored ==
    Walking => \A k \in requested_tasks :
                  ~call.handles[k].seen /\ ~call.handles[k].stored

\* C29: run_backfill does not end with the error of a request that
\* exhausted its retries: it returns after the last listed program.
C29_UpstreamFailureEndsOneWalk ==
    (Walking /\ call.at = "returned") =>
        (outcome.ok /\ call.program > Len(call.programs))

(***************************************************************************)
(* concurrent_process (retry.rs): stream::iter(items).map(..)               *)
(* .buffer_unordered(concurrency).collect().                               *)
(***************************************************************************)

\* How many items a call is given.
MaxItems == 4

\* items: (0..n).collect().
ItemLists == {[i \in 1..n |-> i - 1] : n \in 0..MaxItems}

\* The concurrency argument.
BufferSizes == {0, 1, 2, 3}

\* What the processor returns for an item.
ProcessorResults(item) == {OkValue(item * 2), Anyhow(<<102, 97, 105, 108, 101, 100>>)}

\* buffer_unordered: whether the queue of futures takes another one, a
\* mutant of it first.
queue_has_room_for_one_more(in_progress, max) == Cardinality(in_progress) <= max

queue_has_room(in_progress, max) == Cardinality(in_progress) < max

\* The stream and the queue of buffer_unordered: next is the position of
\* the next item of stream::iter, in_progress the positions whose future is
\* in the queue, calls how often processor was called for each position,
\* in_call the positions whose call has started and not returned.
BufferFrame(items, concurrency) ==
    [op |-> "concurrent_process",
     at |-> "collect",
     items |-> items,
     concurrency |-> concurrency,
     next |-> 1,
     in_progress |-> {},
     in_call |-> {},
     calls |-> [i \in 1..Len(items) |-> 0],
     results |-> <<>>]

Buffering == call # NoCall /\ call.op = "concurrent_process" /\ call.at = "collect"

\* A poll takes futures from the stream while the queue has room, before it
\* polls the queue.
filling ==
    /\ call.next <= Len(call.items)
    /\ queue_has_room(call.in_progress, call.concurrency)

\* concurrent_process(items, concurrency, processor) is called.
ConcurrentProcess(items, concurrency) ==
    /\ call = NoCall
    /\ outcome = NoCall
    /\ call' = BufferFrame(items, concurrency)
    /\ UNCHANGED <<idl_parser, prefix_config, alloc_limit, target_pointer_width, clock, outcome, databases, history>>

\* The map closure makes the future of the next item and the queue takes it.
TakeItem ==
    /\ Buffering
    /\ filling
    /\ call' = [call EXCEPT !.next = @ + 1, !.in_progress = @ \cup {call.next}]
    /\ UNCHANGED <<idl_parser, prefix_config, alloc_limit, target_pointer_width, clock, outcome, databases, history>>

\* The first poll of the future at position i: processor(item) is called.
CallProcessor(i) ==
    /\ Buffering
    /\ ~filling
    /\ i \in call.in_progress \ call.in_call
    /\ call.calls[i] = 0
    /\ call' = [call EXCEPT !.calls[i] = @ + 1, !.in_call = @ \cup {i}]
    /\ UNCHANGED <<idl_parser, prefix_config, alloc_limit, target_pointer_width, clock, outcome, databases, history>>

\* The call at position i returns: the queue yields its result, which
\* collect appends.
ProcessorReturns(i, result) ==
    /\ Buffering
    /\ ~filling
    /\ i \in call.in_call
    /\ call' = [call EXCEPT !.in_call = @ \ {i},
                            !.in_progress = @ \ {i},
                            !.results = Append(@, [position |-> i, result |-> result])]
    /\ UNCHANGED <<idl_parser, prefix_config, alloc_limit, target_pointer_width, clock, outcome, databases, history>>

\* The call at position i panics: the panic unwinds through collect.
ProcessorPanics(i) ==
    /\ Buffering
    /\ ~filling
    /\ i \in call.in_call
    /\ call' = [call EXCEPT !.at = "panicked"]
    /\ outcome' = Panic(<<112, 114, 111, 99, 101, 115, 115, 111, 114, 32, 112, 97, 110, 105, 99, 107, 101, 100>>)
    /\ UNCHANGED <<idl_parser, prefix_config, alloc_limit, target_pointer_width, clock, databases, history>>

\* The stream is done and the queue is empty: collect returns the results.
\* With concurrency = 0 the stream is never polled, so it is never done.
CollectReturns ==
    /\ Buffering
    /\ call.concurrency > 0
    /\ call.next > Len(call.items)
    /\ call.in_progress = {}
    /\ call' = [call EXCEPT !.at = "returned"]
    /\ outcome' = OkValue([k \in 1..Len(call.results) |-> call.results[k].result])
    /\ UNCHANGED <<idl_parser, prefix_config, alloc_limit, target_pointer_width, clock, databases, history>>

NextConcurrent ==
    \/ \E items \in ItemLists, concurrency \in BufferSizes :
          ConcurrentProcess(items, concurrency)
    \/ TakeItem
    \/ \E i \in 1..MaxItems : CallProcessor(i)
    \/ \E i \in 1..MaxItems : \E result \in ProcessorResults(i - 1) :
          ProcessorReturns(i, result)
    \/ \E i \in 1..MaxItems : ProcessorPanics(i)
    \/ CollectReturns

SpecConcurrent == InitDecode /\ [][NextConcurrent]_vars

\* The positions that have a result.
answered == {call.results[k].position : k \in 1..Len(call.results)}

MarkedProgram(log, marker) ==
    IF StartsWith(log, <<80, 114, 111, 103, 114, 97, 109, 32>>) /\ Contains(log, marker)
    THEN LET at == CHOOSE i \in 0..(Len(log) - Len(marker)) :
                       /\ SubSeq(log, i + 1, i + Len(marker)) = marker
                       /\ \A j \in 0..(i - 1) : SubSeq(log, j + 1, j + Len(marker)) # marker
         IN  Some(SubSeq(log, 9, at))
    ELSE None

\* The invocation stack after the first n lines: an invoke line pushes its
\* program, a success or failed line pops.
RECURSIVE InvocationStack(_, _)
InvocationStack(logs, n) ==
    IF n = 0 THEN <<>>
    ELSE LET below == InvocationStack(logs, n - 1)
             invoked == MarkedProgram(logs[n], <<32, 105, 110, 118, 111, 107, 101, 32, 91>>)
             ended == MarkedProgram(logs[n], <<32, 115, 117, 99, 99, 101, 115, 115>>).some
                      \/ MarkedProgram(logs[n], <<32, 102, 97, 105, 108, 101, 100>>).some
         IN  IF invoked.some THEN Append(below, invoked.v)
             ELSE IF ended /\ below # <<>> THEN SubSeq(below, 1, Len(below) - 1)
             ELSE below

\* Line i is a frame that the innermost program of the stack emitted.
EmittedBy(message, i, program_id, discriminator) ==
    LET stack == InvocationStack(message.logs, i - 1)
    IN  /\ FrameOf(message, i).some
        /\ Len(FrameOf(message, i).v) >= 8
        /\ hex_encode_upper(SubSeq(FrameOf(message, i).v, 1, 8)) = discriminator
        /\ stack # <<>>
        /\ stack[Len(stack)] = program_id

\* C32: every row the live handler stores for a message carries the program
\* that is innermost on the invocation stack at the "Program data: " line
\* the row was decoded from (a MongoDB document carries no program).
C32_AttributedToInnermostProgram ==
    \A k \in Processed :
        \A n \in 1..Len(RowsAdded(k)) :
            "program_id" \in DOMAIN RowsAdded(k)[n] =>
                \E i \in 1..Len(history[k].message.logs) :
                    EmittedBy(history[k].message, i, RowsAdded(k)[n].program_id,
                              RowsAdded(k)[n].discriminator)

(***************************************************************************)
(* extract_event_from_log (utils.rs) on its own.                           *)
(***************************************************************************)

\* The payload of the unit tests, a JSON text of 20 bytes.
TestBlob == <<123, 34, 101, 118, 101, 110, 116, 34, 58, 34, 84, 114, 97, 110, 115, 102, 101, 114, 34, 125>>

\* Payloads.
LinePayloads ==
    {TestBlob, <<>>, <<1>>, <<1, 2>>, <<255, 254, 253>>,
     KnownDiscriminator[EventName.Transfer] \o <<1, 0, 0, 0>>}

\* How a line begins, what follows, and how it ends: the base64 of a
\* payload or a text that is no padded canonical base64; nothing, white
\* space, or the address of the first program and one more character.
LineHeads == { <<80, 114, 111, 103, 114, 97, 109, 32, 100, 97, 116, 97, 58, 32>>, <<80, 114, 111, 103, 114, 97, 109, 32, 100, 97, 116, 97, 58>>, <<80, 114, 111, 103, 114, 97, 109, 32, 108, 111, 103, 58, 32>>, <<80, 114, 111, 103, 114, 97, 109, 32, 100, 97, 116, 97, 58, 32, 32>> }
LineBodies ==
    {base64_encode(b) : b \in LinePayloads} \cup { <<65, 66>>, <<65, 66, 61, 61>>, <<65, 65, 65, 42>>, <<65, 61, 65, 65>>, <<65, 65, 65, 65, 65>> }
LineTails == { <<>>, <<32>>, <<10>>, Address[PubkeyA] \o <<65>> }

\* The program_id argument.
ProgramTexts == { <<100, 97, 116, 97, 58>>, <<78, 111, 110, 69, 120, 105, 115, 116, 101, 110, 116, 80, 114, 111, 103, 114, 97, 109>>, <<108, 100, 109, 86, 117, 100, 67, 73, 54>>, Address[PubkeyA] }

\* extract_event_from_log(log, program_id_str) is called.
ExtractEventFromLog(log, program_id_str) ==
    /\ call = NoCall
    /\ call' = [op |-> "extract_event_from_log", log |-> log,
                program_id_str |-> program_id_str]
    /\ outcome' = extract_event_from_log(log, program_id_str)
    /\ UNCHANGED <<idl_parser, prefix_config, alloc_limit, target_pointer_width, clock, databases, history>>

\* The caller takes the result.
ReturnExtract ==
    /\ call # NoCall
    /\ call.op = "extract_event_from_log"
    /\ call' = NoCall
    /\ outcome' = NoCall
    /\ UNCHANGED <<idl_parser, prefix_config, alloc_limit, target_pointer_width, clock, databases, history>>

NextExtract ==
    \/ \E head \in LineHeads, body \in LineBodies, tail \in LineTails,
          program_id_str \in ProgramTexts :
          ExtractEventFromLog(head \o body \o tail, program_id_str)
    \/ ReturnExtract

SpecExtract == InitDecode /\ [][NextExtract]_vars

Extracted == call # NoCall /\ call.op = "extract_event_from_log"

\* The result is the payload exactly when the line starts with
\* "Program data: ", text is the padded base64 of the payload and the line
\* contains the program id; it is none otherwise.
ExtractsWhen(text) ==
    LET accepted == /\ StartsWith(call.log, ProgramDataPrefix)
                    /\ Contains(call.log, call.program_id_str)
    IN  /\ outcome.some => (accepted /\ base64_encode(outcome.v) = text)
        /\ \A b \in LinePayloads : (accepted /\ base64_encode(b) = text) => outcome = Some(b)

\* C33 as stated: the text after "Program data: ", to the end of the line,
\* is the base64.
C33_ExtractsFromRestOfLine ==
    Extracted => ExtractsWhen(SliceFrom(call.log, Len(ProgramDataPrefix)))

\* C33: extract_event_from_log returns the decoded bytes exactly when the
\* line starts with "Program data: ", the rest of the line without the white
\* space around it is valid base64, and the line contains program_id.
C33_ExtractsFromTrimmedRest ==
    Extracted => ExtractsWhen(TrimText(SliceFrom(call.log, Len(ProgramDataPrefix))))

\* The payload of the unit test was extracted from a line that ends with a
\* line feed, for a program id found in the base64 text.
C33_Witness ==
    /\ Extracted
    /\ outcome = Some(TestBlob)
    /\ call.log[Len(call.log)] = 10
    /\ call.program_id_str = <<108, 100, 109, 86, 117, 100, 67, 73, 54>>

(***************************************************************************)
(* Properties of the walker (SpecWalker).                                  *)
(***************************************************************************)

\* How many tasks process_signatures_concurrent has spawned for the program
\* being walked, and the tasks of the chunk that are not joined yet.
spawned_count == call.chunk + Len(call.handles)
in_flight == {k \in 1..Len(call.handles) : k > call.joined}

\* A chunk holds at most 2 * C tasks and no more are in flight.
WithinTwiceTheLimit ==
    Walking => /\ Len(call.handles) <= 2 * call.concurrency
               /\ Cardinality(in_flight) <= 2 * call.concurrency
               /\ running_tasks \subseteq in_flight

\* A step that spawns tasks starts from a state where every task spawned
\* before is joined.
SpawnsAfterJoins ==
    (Walking /\ call' # NoCall /\ call'.op = "run_backfill"
             /\ call'.handles # <<>> /\ call.handles # call'.handles
             /\ \E k \in 1..Len(call'.handles) : call'.handles[k].at = "spawned"
             /\ spawned_count' > spawned_count)
        => (call.handles = <<>> /\ call.processed_count = spawned_count)

\* C34: the walker processes chunks of at most 2 * C signatures one after
\* another: tasks are spawned only when every task of the chunk before is
\* joined, and never more than 2 * C tasks are in flight.
C34_ChunksOneAfterAnother ==
    [](WithinTwiceTheLimit) /\ [][SpawnsAfterJoins]_vars

\* The second chunk of a list of three signatures is spawned under C = 1
\* after both tasks of the first chunk were joined.
C34_Witness ==
    /\ Walking
    /\ call.concurrency = 1
    /\ Len(call.signatures) = 3
    /\ call.chunk = 2
    /\ call.processed_count = 2
    /\ Len(call.handles) = 1
    /\ call.handles[1].at = "spawned"

\* The handle the join loop awaits next.
awaited == call.handles[call.joined + 1]

\* A step that changes the dedup set is the join of the awaited, finished
\* task of the current chunk and adds the signature of that task only.
WrittenAtJoin ==
    (Walking /\ call' # NoCall /\ call'.op = "run_backfill"
             /\ call'.processed_signatures # call.processed_signatures)
        => /\ call.at = "join"
           /\ call.joined < Len(call.handles)
           /\ awaited.at = "finished"
           /\ call'.processed_count = call.processed_count + 1
           /\ call'.processed_signatures = call.processed_signatures \cup {awaited.signature}
           /\ \A k \in 1..Len(call.handles) :
                 k \notin DOMAIN call'.handles \/ call'.handles[k] = call.handles[k]

\* A step of a task leaves the dedup set as it is.
TasksLeaveTheSet ==
    (Walking /\ call' # NoCall /\ call'.op = "run_backfill"
             /\ Len(call'.handles) = Len(call.handles)
             /\ call'.handles # call.handles)
        => call'.processed_signatures = call.processed_signatures

\* C35: the dedup set is written only by the join loop, for the task it has
\* just joined, never by a step of a task; so every insert for a chunk is
\* made before the tasks of the next chunk are spawned.
C35_DedupSetWrittenAtJoin ==
    [][WrittenAtJoin /\ TasksLeaveTheSet]_vars

\* The first task of a chunk of two was joined and its signature inserted
\* while the second task is still running.
C35_Witness ==
    /\ Walking
    /\ call.at = "join"
    /\ call.joined = 1
    /\ Len(call.handles) = 2
    /\ call.handles[1].signature \in call.processed_signatures
    /\ call.handles[2].at = "spawned"
    /\ call.handles[2].signature \notin call.processed_signatures

(***************************************************************************)
(* Further properties of the subscriber (SpecReconnect).                   *)
(***************************************************************************)

\* C36: the delay slept after the (n+1)-th failure is at least the delay
\* slept after the n-th failure, for every n >= 1.
C36_ReconnectDelayMonotone ==
    [][(Looping /\ call.reconnect_count >= 1
                /\ call'.op = "run_websocket_loop"
                /\ call'.reconnect_count = call.reconnect_count + 1)
          => call'.delay >= call.delay]_vars

\* C37: when the handler has returned, the processing task has exited by
\* itself with an empty queue, and every notification that was read and
\* queued has been processed, in arrival order.
C37_DrainedBeforeReturn ==
    (Looping /\ call.at = "returned" /\ call.processor # "none") =>
        /\ call.processor = "finished"
        /\ call.queue = <<>>
        /\ Handed = [i \in 1..call.received |-> i]

\* A step that changes the dedup set adds the signature of the awaited task,
\* which has returned Ok; the join of a task that returned an error or
\* panicked leaves the set as it is.
InsertsOnSuccessOnly ==
    (Walking /\ call' # NoCall /\ call'.op = "run_backfill") =>
        /\ (call'.processed_signatures # call.processed_signatures) =>
              /\ call.at = "join" /\ call.joined < Len(call.handles)
              /\ awaited.at = "finished"
              /\ awaited.result.ok
              /\ call'.processed_signatures = call.processed_signatures \cup {awaited.signature}
        /\ (call.at = "join" /\ call'.processed_count = call.processed_count + 1
                /\ ~awaited.result.ok) =>
              call'.processed_signatures = call.processed_signatures

\* The walk of a program keeps every listed signature that is not in the
\* dedup set, in the order of the list.
KeepsWhatIsNotInTheSet ==
    (Walking /\ call.at = "program" /\ call' # NoCall /\ call'.at \in {"chunk", "panicked"}) =>
        call'.signatures
            = SelectSeq(call'.listed, LAMBDA sig : sig \notin call.processed_signatures)

\* C38: a signature enters the dedup set only when its task was joined and
\* had returned success; a signature whose task returned an error or
\* panicked is not added and is walked again under a later program.
C38_InsertedOnJoinedSuccessOnly ==
    [][InsertsOnSuccessOnly /\ KeepsWhatIsNotInTheSet]_vars

\* The second program lists the three signatures again: the one whose task
\* failed under the first program is walked again, the two whose tasks
\* succeeded are filtered out.
C38_Witness ==
    /\ Walking
    /\ call.program = 2
    /\ call.at = "join"
    /\ call.listed = <<SignatureA, SignatureB, SignatureC>>
    /\ call.signatures = <<SignatureB>>
    /\ call.processed_signatures = {SignatureA, SignatureC}
    /\ call.handles[1].signature = SignatureB

\* C39: the attempt counter never decreases and is left alone by every step
\* but a failure of the handler, which adds one; the delay slept and the
\* exit test are those of the counter, the number of failures since start.
C39_CounterCountsAllFailures ==
    [][(Looping /\ call'.op = "run_websocket_loop") =>
          \/ /\ call'.reconnect_count = call.reconnect_count
             /\ call'.at # "sleep" \/ call.at = "sleep"
             /\ Exhausted' => reconnects_exhausted(call.max_reconnects, call.reconnect_count)
          \/ /\ call'.reconnect_count = call.reconnect_count + 1
             /\ call'.at = "sleep"
             /\ call'.delay = reconnect_backoff(call.reconnect_delay,
                                                call.reconnect_count + 1)]_vars

\* After two failed connections a connection succeeded and the subscription
\* on it failed: the counter stands at 3.
C39_Witness ==
    /\ Reconnecting
    /\ call.reconnect_count = 3
    /\ call.max_reconnects = 0
    /\ StartsWith(call.last_error.v.msg, <<70, 97, 105, 108, 101, 100, 32, 116, 111, 32, 115, 117, 98, 115, 99, 114, 105, 98, 101>>)
    /\ call.delay = call.reconnect_delay * 8

\* A spawned task has its transaction and has not yet processed it.
task_fetched ==
    /\ Walking
    /\ call.at = "join"
    /\ \E k \in 1..Len(call.handles) : call.handles[k].at = "fetched"

\* Weak fairness of the processing step of the tasks.  The step is possible
\* exactly when task_fetched holds, and the condition is written with that
\* guard: either no task is left waiting again and again, or a task
\* processes its transaction again and again.
ProcessTransactionFair ==
    \/ []<>(~task_fetched)
    \/ []<><<\E k \in TaskIndexes : ProcessTransaction(k)>>_vars

\* The walker under a runtime that runs every spawned task and the join
\* loop of the caller whenever they can proceed.
SpecWalkerFair ==
    /\ SpecWalker
    /\ WF_vars(SpawnChunk)
    /\ WF_vars(\E k \in TaskIndexes, fetched \in BOOLEAN : FetchTransaction(k, fetched))
    /\ ProcessTransactionFair
    /\ WF_vars(Join)
    /\ WF_vars(ProgramComplete)

\* With C >= 1: the tasks of the chunk are those of the next signatures of
\* the list, one each and in order; what is counted is what was joined; and
\* outside process_signatures_concurrent the count is the length of the
\* list.
OneTaskPerSignature ==
    (Walking /\ call.concurrency >= 1) =>
        /\ \A k \in 1..Len(call.handles) :
              call.handles[k].signature = call.signatures[call.chunk + k]
        /\ call.chunk + Len(call.handles) <= Len(call.signatures)
        /\ call.processed_count = call.chunk + call.joined
        /\ call.joined <= Len(call.handles)
        /\ (call.at = "chunk") => (call.handles = <<>> /\ call.joined = 0)
        /\ (call.at \in {"program", "returned"}) =>
              call.processed_count = Len(call.signatures)

InConcurrent == Walking /\ call.concurrency >= 1 /\ call.at \in {"chunk", "join"}

\* process_signatures_concurrent has returned, or the process was aborted
\* inside a task.
OutOfConcurrent == Walking /\ call.at \in {"program", "aborted"}

\* C40: with C >= 1, process_signatures_concurrent spawns one task per
\* listed signature, joins every task it spawned and, when every task
\* finishes, returns with the processed count equal to the list length.
C40_OneTaskPerSignatureAllJoined ==
    [](OneTaskPerSignature) /\ (InConcurrent ~> OutOfConcurrent)

\* process_signatures_concurrent has returned for a list of three
\* signatures walked in two chunks, one of whose tasks failed.
C40_Witness ==
    /\ Walking
    /\ call.at = "program"
    /\ call.concurrency = 1
    /\ Len(call.signatures) = 3
    /\ call.processed_count = 3
    /\ call.chunk = 3
    /\ Cardinality(call.processed_signatures) = 2
====
